---- MODULE Spec2Model ----
(***************************************************************************)
(* Workflow control plane of openhands/server: the run state machine, the  *)
(* approval gate and the step interpreter of WorkflowEngine, over the      *)
(* tables of SQLiteStore.  Every store.cursor() block of the source is one *)
(* committed transaction and is one step of the calling thread; a request  *)
(* handler is the sequence of its transactions, tracked by thr[t].pc.      *)
(***************************************************************************)
EXTENDS Integers, Sequences, FiniteSets, TLC

\* ---------------------------------------------------------------- bounds
MaxCalls == 4      \* API calls (create_run / approve) started in a behaviour
MaxRuns == 2       \* run rows created in a behaviour
NThreads == 2      \* request-handler threads
MaxNotify == 2     \* notify_completion calls in a behaviour of the notifier
MaxChunks == 3     \* pieces of an artifact's content
MaxSecretChunks == 2 \* characters of a secret value
MaxSecrets == 2    \* secret values the vault lists
MaxRequests == 2   \* outbound requests of the connector client
MaxStored == 2     \* rows of the secrets table
MaxKeys == 3       \* keys of a step object

Threads == 1..NThreads

\* ------------------------------------------------------- workflow schemas
\* A step is the ordered list of its (key, value) pairs, in the order the
\* dict literal of the source lists them.
secretary_steps ==
    << << <<"type", "agent_step">>, <<"name", "draft_email">>,
          <<"artifact", "draft_email.txt">> >>,
       << <<"type", "approval_gate">>, <<"action_type", "approve_email_send">> >>,
       << <<"type", "tool_step">>, <<"tool_name", "send_email">>,
          <<"write", "true">>, <<"artifact", "email_payload.json">> >>,
       << <<"type", "tool_step">>, <<"tool_name", "create_calendar_event">>,
          <<"write", "true">>, <<"artifact", "calendar_payload.json">> >> >>

smoke_steps ==
    << << <<"type", "tool_step">>, <<"tool_name", "shell_command">>,
          <<"command", "node -v">>, <<"write", "false">>,
          <<"artifact", "node_version.txt">> >>,
       << <<"type", "tool_step">>, <<"tool_name", "shell_command">>,
          <<"command", "python --version">>, <<"write", "false">>,
          <<"artifact", "python_version.txt">> >>,
       << <<"type", "tool_step">>, <<"tool_name", "shell_command">>,
          <<"command", "echo 'smoke ok' > smoke.txt">>, <<"write", "false">>,
          <<"artifact", "smoke.txt">> >> >>

\* A workflow row written by an operator: an http_step, the same gate
\* twice (two steps of identical content) and a read-only shell tool.
operator_steps ==
    << << <<"type", "http_step">>, <<"artifact", "http_response.txt">> >>,
       << <<"type", "approval_gate">>, <<"action_type", "review">> >>,
       << <<"type", "approval_gate">>, <<"action_type", "review">> >>,
       << <<"type", "tool_step">>, <<"tool_name", "shell_command">>,
          <<"command", "date">>, <<"write", "false">>,
          <<"artifact", "date.txt">> >> >>

\* The workflows table: the two rows _ensure_default_workflow seeds and the
\* operator's row.
workflows ==
    [w \in {"secretary-default", "agent0-smoke", "operator-flow"} |->
        IF w = "secretary-default" THEN secretary_steps
        ELSE IF w = "agent0-smoke" THEN smoke_steps
        ELSE operator_steps]

\* workflow_id arguments of create_run: the seeded ids and one unknown id.
WorkflowIdArgs == DOMAIN workflows \cup {"no-such-workflow"}

Decisions == {"approved", "rejected"}

\* step.get(key, default)
Get(step, key, default) ==
    IF \E i \in 1..Len(step) : step[i][1] = key
    THEN step[CHOOSE i \in 1..Len(step) : step[i][1] = key][2]
    ELSE default

\* json.dumps(step): the pairs serialised in the dict's own key order.
RECURSIVE json_dump(_)
json_dump(step) ==
    IF step = << >> THEN << >>
    ELSE << step[1][1], step[1][2] >> \o json_dump(Tail(step))

\* sha256(json_dump(payload)): the digest is taken as collision-free, so it
\* is represented by the string it digests.
hash_payload(payload) == json_dump(payload)

\* ------------------------------------------------------------------ state
VARIABLES
    runs,        \* runs table: run id (1..Len) -> [workflow_id, status, current_step]
    approvals,   \* approvals table: approval id (1..Len) -> row
    artifacts,   \* artifacts table, in insertion order: [run_id, path, step]
    invoked,     \* tool invocations made so far: [run_id, tool_name, step]
    notified,    \* notify_completion calls, in call order: [run_id, at, raised]
    clock,       \* datetime.now(): number of API calls started so far
    thr,         \* per thread: the handler it runs (op and arguments), where it
                 \* is in it (pc, index) and how its last call ended (ret)
    notifier,    \* the WorkflowNotifier object: what its constructor read from
                 \* the environment
    notify_call, \* the notify_completion call in progress: its position (pc),
                 \* its locals and how the last call ended (ret)
    posted,      \* the requests POSTed to the webhook URL, in order
    redaction,   \* an artifact write: the content, the vault's plaintexts and
                 \* the text written to the file
    fingerprint, \* two step objects of the same key/value pairs and the
                 \* hash_payload of each
    vault,       \* the SecretsVault object (its key), the secrets table and
                 \* the last vault call
    connector,   \* the ConnectorService object (its base URL), the HTTP
                 \* requests it made and its last call
    presets      \* the model_presets and model_preset_state tables and the
                 \* last ModelPresetManager call

\* The state outside the engine's tables and handlers.
side == << notifier, notify_call, posted, redaction, fingerprint, vault,
          connector, presets >>

\* The engine's tables and handlers, and the notifier's state.
engine == << runs, approvals, artifacts, invoked, notified, clock, thr >>

notifier_vars == << notifier, notify_call, posted >>

vars == << runs, approvals, artifacts, invoked, notified, clock, thr, side >>

\* WorkflowNotifier.__init__ with none of its variables in the environment.
DefaultNotifier ==
    [notify_on_complete |-> TRUE, webhook_url |-> "", webhook_secret |-> "",
     tts_provider |-> "none", tts_api_key |-> ""]

NotifyIdle ==
    [pc |-> "idle", run_id |-> 0, tts |-> "none", tts_audio |-> "None",
     sent |-> FALSE, ret |-> "none"]

RedactionIdle ==
    [pc |-> "done", content |-> << >>, secret_values |-> << >>, written |-> << >>,
     again |-> << >>]

FingerprintIdle ==
    [pc |-> "done", a |-> << >>, b |-> << >>, hash_a |-> << >>, hash_b |-> << >>]

\* No SecretsVault was built (MASTER_KEY is not set) and no secret is stored.
VaultIdle ==
    [key |-> "", secrets |-> << >>, stored |-> << >>,
     op |-> "none", arg |-> << >>, ret |-> << >>]

\* ConnectorService.__init__ with MCP_RUBE_URL not in the environment.
ConnectorIdle ==
    [pc |-> "ready", env_url |-> << >>, base_url |-> << >>,
     requests |-> << >>, op |-> "none", ret |-> << >>]

\* ModelPresetManager._ensure_defaults with nothing in the environment.
PresetsIdle ==
    [model_presets |-> [n \in {"quality", "main", "fast", "long"} |->
                           IF n = "quality" THEN "glm-quality"
                           ELSE IF n = "main" THEN "glm-main"
                           ELSE IF n = "fast" THEN "glm-fast" ELSE "glm-long"],
     active_preset |-> "quality", last_set |-> "",
     op |-> "none", arg |-> "", ret |-> << >>]

\* The state outside the engine's tables as the engine's start leaves it.
SideInit ==
    /\ notifier = DefaultNotifier
    /\ notify_call = NotifyIdle
    /\ posted = << >>
    /\ redaction = RedactionIdle
    /\ fingerprint = FingerprintIdle
    /\ vault = VaultIdle
    /\ connector = ConnectorIdle
    /\ presets = PresetsIdle

Idle == [pc |-> "idle", op |-> "none", run_id |-> 0, approval_id |-> 0,
         decision |-> "", index |-> 0, ret |-> "none", entry |-> -1]

Init ==
    /\ runs = << >>
    /\ approvals = << >>
    /\ artifacts = << >>
    /\ invoked = << >>
    /\ notified = << >>
    /\ clock = 0
    /\ thr = [t \in Threads |-> Idle]
    /\ SideInit

RunExists(run_id) == run_id \in 1..Len(runs)

StepsOf(run_id) ==
    IF runs[run_id].workflow_id \in DOMAIN workflows
    THEN workflows[runs[run_id].workflow_id] ELSE << >>

\* _update_run: UPDATE runs SET status, current_step WHERE id = run_id
\* (no row matches an unknown id).
update_run(rs, run_id, status, current_step) ==
    IF run_id \in 1..Len(rs)
    THEN [rs EXCEPT ![run_id].status = status, ![run_id].current_step = current_step]
    ELSE rs

\* Rows "WHERE run_id = ? AND payload_hash = ?"
RowsFor(run_id, h) ==
    {i \in 1..Len(approvals) :
        approvals[i].run_id = run_id /\ approvals[i].payload_hash = h}

\* "ORDER BY decided_at DESC LIMIT 1": a row of greatest decided_at; NULL
\* (0) sorts below every timestamp, and rows that tie may come in any order.
TopRows(run_id, h) ==
    {i \in RowsFor(run_id, h) :
        \A j \in RowsFor(run_id, h) : approvals[j].decided_at <= approvals[i].decided_at}

\* _has_approved without the test of the row's status: any row counts.
has_approved_any(run_id, h) == {RowsFor(run_id, h) # {}}

\* _has_approved comparing the status with a value no row has.
has_approved_never(run_id, h) == {FALSE}

\* The answers _has_approved can give.
has_approved(run_id, h) ==
    {approvals[i].status = "approved" : i \in TopRows(run_id, h)}
        \cup (IF RowsFor(run_id, h) = {} THEN {FALSE} ELSE {})

\* --------------------------------------------------------- the interpreter
StepAt(run_id, index) == StepsOf(run_id)[index + 1]

\* Where "for index in range(current_step, len(steps))" goes at `index`: the
\* branch of the step's type, or past the loop.  A step of no known type
\* falls through every branch and the loop moves on without an update.
RECURSIVE StepPc(_, _)
StepPc(steps, index) ==
    IF index >= Len(steps) THEN "complete"
    ELSE LET type == Get(steps[index + 1], "type", "") IN
         IF type = "agent_step" THEN "agent_step"
         ELSE IF type = "approval_gate" THEN "approval_gate"
         ELSE IF type = "tool_step" THEN "tool_step"
         ELSE IF type = "http_step" THEN "http_step"
         ELSE StepPc(steps, index + 1)

RECURSIVE StepIndex(_, _)
StepIndex(steps, index) ==
    IF index >= Len(steps) THEN index
    ELSE IF Get(steps[index + 1], "type", "") \in
                {"agent_step", "approval_gate", "tool_step", "http_step"}
         THEN index
         ELSE StepIndex(steps, index + 1)

At(t, pc) == thr[t].pc = pc

Goto(t, pc) == thr' = [thr EXCEPT ![t].pc = pc]

\* The handler returns (ret = "ok") or raises (ret = the exception).
Finish(t, ret) ==
    thr' = [thr EXCEPT ![t].pc = "idle", ![t].index = 0, ![t].ret = ret,
                       ![t].entry = -1]

\* _execute_run returns to its caller: create_run returns the run, approve
\* goes on to get_run.
Return(t) ==
    IF thr[t].op = "create_run" THEN Finish(t, "ok") ELSE Goto(t, "get_run")

\* create_run, lines 148-170: a fresh id and the INSERT of the run row.
create_run(t, workflow_id) ==
    /\ At(t, "idle")
    /\ clock < MaxCalls
    /\ Len(runs) < MaxRuns
    /\ clock' = clock + 1
    /\ runs' = Append(runs, [workflow_id |-> workflow_id, status |-> "running",
                             current_step |-> 0])
    /\ thr' = [thr EXCEPT ![t] = [pc |-> "execute_run", op |-> "create_run",
                                  run_id |-> Len(runs) + 1, approval_id |-> 0,
                                  decision |-> "", index |-> 0, ret |-> "none",
                                  entry |-> -1]]
    /\ UNCHANGED << side, approvals, artifacts, invoked, notified >>

\* The index a run is waiting at when a call arrives (-1: not waiting, or no
\* such run); the call's record keeps it until the call ends.
WaitingAt(run_id) ==
    IF RunExists(run_id) /\ runs[run_id].status = "waiting_approval"
    THEN runs[run_id].current_step ELSE -1

\* approve, lines 368-373: UPDATE approvals ... WHERE id = approval_id.
approve(t, run_id, approval_id, decision, decided_by) ==
    /\ At(t, "idle")
    /\ clock < MaxCalls
    /\ clock' = clock + 1
    /\ approvals' =
         IF approval_id \in 1..Len(approvals)
         THEN [approvals EXCEPT ![approval_id].status = decision,
                                ![approval_id].decided_by = decided_by,
                                ![approval_id].decided_at = clock + 1]
         ELSE approvals
    /\ thr' = [thr EXCEPT ![t] = [pc |-> IF decision = "approved"
                                         THEN "approve_get_state"
                                         ELSE "approve_reject",
                                  op |-> "approve", run_id |-> run_id,
                                  approval_id |-> approval_id,
                                  decision |-> decision,
                                  index |-> 0, ret |-> "none",
                                  entry |-> WaitingAt(run_id)]]
    /\ UNCHANGED << side, runs, artifacts, invoked, notified >>

\* approve, line 375: _get_run_state (raises ValueError on an unknown run).
approve_get_state(t) ==
    /\ At(t, "approve_get_state")
    /\ IF RunExists(thr[t].run_id)
       THEN thr' = [thr EXCEPT ![t].pc = "approve_running",
                               ![t].index = runs[thr[t].run_id].current_step]
       ELSE Finish(t, "ValueError")
    /\ UNCHANGED << side, runs, approvals, artifacts, invoked, notified, clock >>

\* Line 376 with 0 in place of current_step: the run restarts.
approve_running_from_start(t) ==
    /\ At(t, "approve_running")
    /\ runs' = update_run(runs, thr[t].run_id, "running", 0)
    /\ thr' = [thr EXCEPT ![t].pc = "execute_run", ![t].index = 0]
    /\ UNCHANGED << side, approvals, artifacts, invoked, notified, clock >>

\* approve, line 376: _update_run(run_id, "running", current_step).
approve_running(t) ==
    /\ At(t, "approve_running")
    /\ runs' = update_run(runs, thr[t].run_id, "running", thr[t].index)
    /\ thr' = [thr EXCEPT ![t].pc = "execute_run", ![t].index = 0]
    /\ UNCHANGED << side, approvals, artifacts, invoked, notified, clock >>

\* The reject branch without its _update_run.
approve_reject_no_update(t) ==
    /\ At(t, "approve_reject")
    /\ Goto(t, "get_run")
    /\ UNCHANGED << side, runs, approvals, artifacts, invoked, notified, clock >>

\* approve, line 379: _update_run(run_id, "rejected", 0).
approve_reject(t) ==
    /\ At(t, "approve_reject")
    /\ runs' = update_run(runs, thr[t].run_id, "rejected", 0)
    /\ Goto(t, "get_run")
    /\ UNCHANGED << side, approvals, artifacts, invoked, notified, clock >>

\* approve, line 380: get_run (raises ValueError on an unknown run).
get_run(t) ==
    /\ At(t, "get_run")
    /\ Finish(t, IF RunExists(thr[t].run_id) THEN "ok" ELSE "ValueError")
    /\ UNCHANGED << side, runs, approvals, artifacts, invoked, notified, clock >>

\* _execute_run taking the steps of a workflow row it did not find as empty.
execute_run_no_lookup(t) ==
    /\ At(t, "execute_run")
    /\ LET r == thr[t].run_id IN
       IF ~RunExists(r) THEN Finish(t, "ValueError")
       ELSE IF runs[r].status \notin {"running", "waiting_approval"} THEN Return(t)
       ELSE thr' = [thr EXCEPT
                ![t].index = StepIndex(StepsOf(r), runs[r].current_step),
                ![t].pc = StepPc(StepsOf(r), runs[r].current_step)]
    /\ UNCHANGED << side, runs, approvals, artifacts, invoked, notified, clock >>

\* _execute_run, lines 241-248: read the run row, leave if the run is not
\* running or waiting, load the workflow and enter the loop at current_step.
execute_run(t) ==
    /\ At(t, "execute_run")
    /\ LET r == thr[t].run_id IN
       IF ~RunExists(r) THEN Finish(t, "ValueError")
       ELSE IF runs[r].status \notin {"running", "waiting_approval"} THEN Return(t)
       ELSE IF runs[r].workflow_id \notin DOMAIN workflows THEN Finish(t, "ValueError")
       ELSE thr' = [thr EXCEPT
                ![t].index = StepIndex(StepsOf(r), runs[r].current_step),
                ![t].pc = StepPc(StepsOf(r), runs[r].current_step)]
    /\ UNCHANGED << side, runs, approvals, artifacts, invoked, notified, clock >>

\* _write_artifact: the file and its artifacts row.
write_artifact(arts, run_id, index) ==
    Append(arts, [run_id |-> run_id, step |-> index,
                  path |-> Get(StepAt(run_id, index), "artifact", "")])

\* lines 251-256 (agent_step) and 293-298 (http_step): the step's artifact.
agent_step(t) ==
    /\ At(t, "agent_step")
    /\ artifacts' = write_artifact(artifacts, thr[t].run_id, thr[t].index)
    /\ Goto(t, "advance")
    /\ UNCHANGED << side, runs, approvals, invoked, notified, clock >>

http_step(t) ==
    /\ At(t, "http_step")
    /\ artifacts' = write_artifact(artifacts, thr[t].run_id, thr[t].index)
    /\ Goto(t, "advance")
    /\ UNCHANGED << side, runs, approvals, invoked, notified, clock >>

\* lines 260-263: the gate asks _has_approved for the step's fingerprint.
\* Lines 260-268 with a _write_artifact on the pass-through.
approval_gate_recorded(t) ==
    /\ At(t, "approval_gate")
    /\ \E ok \in has_approved(thr[t].run_id,
                              hash_payload(StepAt(thr[t].run_id, thr[t].index))) :
          /\ Goto(t, IF ok THEN "advance" ELSE "create_approval")
          /\ artifacts' = IF ok THEN write_artifact(artifacts, thr[t].run_id, thr[t].index)
                          ELSE artifacts
    /\ UNCHANGED << side, runs, approvals, invoked, notified, clock >>

\* Lines 260-263 with one approval consumed per gate: the gate passes only
\* when the fingerprint has as many approved rows as the run has gates of
\* that content up to this one.
approval_gate_one_each(t) ==
    /\ At(t, "approval_gate")
    /\ LET h == hash_payload(StepAt(thr[t].run_id, thr[t].index))
           granted == {i \in RowsFor(thr[t].run_id, h) : approvals[i].status = "approved"}
           gates == {j \in 0..thr[t].index : hash_payload(StepAt(thr[t].run_id, j)) = h}
       IN \E ok \in has_approved(thr[t].run_id, h) :
             Goto(t, IF ok /\ Cardinality(granted) >= Cardinality(gates)
                     THEN "advance" ELSE "create_approval")
    /\ UNCHANGED << side, runs, approvals, artifacts, invoked, notified, clock >>

approval_gate(t) ==
    /\ At(t, "approval_gate")
    /\ \E ok \in has_approved(thr[t].run_id,
                              hash_payload(StepAt(thr[t].run_id, thr[t].index))) :
          Goto(t, IF ok THEN "advance" ELSE "create_approval")
    /\ UNCHANGED << side, runs, approvals, artifacts, invoked, notified, clock >>

\* Lines 270-276 without the write_flag test: every tool_step asks for an
\* approval.
tool_step_always_gated(t) ==
    /\ At(t, "tool_step")
    /\ LET step == StepAt(thr[t].run_id, thr[t].index)
       IN \E ok \in has_approved(thr[t].run_id, hash_payload(step)) :
             Goto(t, IF ok THEN "invoke" ELSE "create_approval")
    /\ UNCHANGED << side, runs, approvals, artifacts, invoked, notified, clock >>

\* lines 270-273: a tool step asks _has_approved only when write is set.
tool_step(t) ==
    /\ At(t, "tool_step")
    /\ LET step == StepAt(thr[t].run_id, thr[t].index)
           write_flag == Get(step, "write", "false") = "true"
       IN IF write_flag
          THEN \E ok \in has_approved(thr[t].run_id, hash_payload(step)) :
                  Goto(t, IF ok THEN "invoke" ELSE "create_approval")
          ELSE Goto(t, "invoke")
    /\ UNCHANGED << side, runs, approvals, artifacts, invoked, notified, clock >>

\* _create_approval (lines 264, 274): INSERT a pending row.
create_approval(t) ==
    /\ At(t, "create_approval")
    /\ LET step == StepAt(thr[t].run_id, thr[t].index) IN
       approvals' = Append(approvals,
           [run_id |-> thr[t].run_id,
            action_type |-> IF Get(step, "type", "") = "approval_gate"
                            THEN Get(step, "action_type", "approval")
                            ELSE Get(step, "tool_name", "tool"),
            payload_hash |-> hash_payload(step),
            status |-> "pending", decided_by |-> "", decided_at |-> 0])
    /\ Goto(t, "suspend")
    /\ UNCHANGED << side, runs, artifacts, invoked, notified, clock >>

\* The suspension without the status change: the run is left running.
suspend_running(t) ==
    /\ At(t, "suspend")
    /\ runs' = update_run(runs, thr[t].run_id, "running", thr[t].index)
    /\ Return(t)
    /\ UNCHANGED << side, approvals, artifacts, invoked, notified, clock >>

\* lines 265-266, 275-276: _update_run(run_id, "waiting_approval", index); return.
suspend(t) ==
    /\ At(t, "suspend")
    /\ runs' = update_run(runs, thr[t].run_id, "waiting_approval", thr[t].index)
    /\ Return(t)
    /\ UNCHANGED << side, approvals, artifacts, invoked, notified, clock >>

\* Lines 277-284 behind a test that the step's tool was not invoked for
\* this run before: a tool runs once per run and step.
invoke_once(t) ==
    /\ At(t, "invoke")
    /\ LET tool == Get(StepAt(thr[t].run_id, thr[t].index), "tool_name", "tool")
           done == \E j \in 1..Len(invoked) :
                       /\ invoked[j].run_id = thr[t].run_id
                       /\ invoked[j].step = thr[t].index
       IN IF done
          THEN /\ Goto(t, "tool_artifact")
               /\ UNCHANGED invoked
          ELSE /\ invoked' = Append(invoked, [run_id |-> thr[t].run_id,
                                              tool_name |-> tool,
                                              step |-> thr[t].index])
               /\ \/ Goto(t, "tool_artifact")
                  \/ /\ tool # "shell_command"
                     /\ Finish(t, "RuntimeError")
    /\ UNCHANGED << side, runs, approvals, artifacts, notified, clock >>

\* lines 277-284: _run_shell_command (never raises) or invoke_tool, which
\* raises when the client is disabled or the service answers non-2xx.
invoke(t) ==
    /\ At(t, "invoke")
    /\ LET tool == Get(StepAt(thr[t].run_id, thr[t].index), "tool_name", "tool") IN
       /\ invoked' = Append(invoked, [run_id |-> thr[t].run_id, tool_name |-> tool,
                                      step |-> thr[t].index])
       /\ \/ Goto(t, "tool_artifact")
          \/ /\ tool # "shell_command"
             /\ Finish(t, "RuntimeError")
    /\ UNCHANGED << side, runs, approvals, artifacts, notified, clock >>

\* Lines 285-289 with a _write_artifact that writes the file and leaves out
\* _record_artifact: no artifacts row for the tool result.
tool_artifact_unrecorded(t) ==
    /\ At(t, "tool_artifact")
    /\ Goto(t, "advance")
    /\ UNCHANGED << side, runs, approvals, artifacts, invoked, notified, clock >>

\* lines 285-289: the tool result's artifact.
tool_artifact(t) ==
    /\ At(t, "tool_artifact")
    /\ artifacts' = write_artifact(artifacts, thr[t].run_id, thr[t].index)
    /\ Goto(t, "advance")
    /\ UNCHANGED << side, runs, approvals, invoked, notified, clock >>

\* lines 257, 267, 290, 299: _update_run(run_id, "running", index + 1); continue.
advance(t) ==
    /\ At(t, "advance")
    /\ runs' = update_run(runs, thr[t].run_id, "running", thr[t].index + 1)
    /\ thr' = [thr EXCEPT
          ![t].index = StepIndex(StepsOf(thr[t].run_id), thr[t].index + 1),
          ![t].pc = StepPc(StepsOf(thr[t].run_id), thr[t].index + 1)]
    /\ UNCHANGED << side, approvals, artifacts, invoked, notified, clock >>

\* Line 302 with the index of the last step in place of len(steps).
complete_off_by_one(t) ==
    /\ At(t, "complete")
    /\ runs' = update_run(runs, thr[t].run_id, "completed",
                          Len(StepsOf(thr[t].run_id)) - 1)
    /\ Goto(t, "notify")
    /\ UNCHANGED << side, approvals, artifacts, invoked, notified, clock >>

\* line 302: _update_run(run_id, "completed", len(steps)).
complete(t) ==
    /\ At(t, "complete")
    /\ runs' = update_run(runs, thr[t].run_id, "completed", Len(StepsOf(thr[t].run_id)))
    /\ Goto(t, "notify")
    /\ UNCHANGED << side, approvals, artifacts, invoked, notified, clock >>

\* Lines 303-306 without the try/except: what notify_completion raises
\* leaves _execute_run.
notify_uncaught(t) ==
    /\ At(t, "notify")
    /\ \E raised \in BOOLEAN :
          /\ notified' = Append(notified, [run_id |-> thr[t].run_id,
                                           at |-> clock, raised |-> raised])
          /\ IF raised THEN Finish(t, "Exception") ELSE Return(t)
    /\ UNCHANGED << side, runs, approvals, artifacts, invoked, clock >>

\* lines 303-306: notify_completion returns or raises (the run is not found,
\* the TTS or the webhook request fails); what it raises is logged and
\* dropped.
notify(t) ==
    /\ At(t, "notify")
    /\ \E raised \in BOOLEAN :
          notified' = Append(notified, [run_id |-> thr[t].run_id,
                                        at |-> clock, raised |-> raised])
    /\ Return(t)
    /\ UNCHANGED << side, runs, approvals, artifacts, invoked, clock >>

\* ------------------------------------------------------------------ routes
\* run_workflow and approve_run: the HTTP status of the response for the way
\* the engine call ended.  ValueError is caught and answered 404; any other
\* exception is not caught by the route (500).
route_status(ret) ==
    IF ret = "ok" THEN 200
    ELSE IF ret = "ValueError" THEN 404
    ELSE IF ret = "HTTPException(400)" THEN 400
    ELSE 500

\* decision values of a request body: the two decisions and another string.
DecisionArgs == Decisions \cup {"maybe"}

\* approve_run passing the body's decision to the engine as it is.
approve_run_unchecked(t, run_id, approval_id, decision, decided_by) ==
    approve(t, run_id, approval_id, decision, decided_by)

\* approve_run, lines 61-75: a decision other than approved / rejected is
\* answered 400 before the engine is called (and before run_id or
\* approval_id is looked at: the thread keeps the decision and the answer).
approve_run(t, run_id, approval_id, decision, decided_by) ==
    IF decision \notin Decisions
    THEN /\ At(t, "idle")
         /\ thr' = [thr EXCEPT ![t] = [Idle EXCEPT !.op = "approve_run",
                                                   !.decision = decision,
                                                   !.ret = "HTTPException(400)"]]
         /\ UNCHANGED << side, runs, approvals, artifacts, invoked, notified, clock >>
    ELSE approve(t, run_id, approval_id, decision, decided_by)

\* ---------------------------------------------------------------- notifier
\* Environments WorkflowNotifier.__init__ can read (lines 19-24).
NotifierEnvs ==
    [notify_on_complete : BOOLEAN,
     webhook_url : {"", "https://hooks.example/dara"},
     webhook_secret : {"", "secret"},
     tts_provider : {"none", "elevenlabs", "openai", "polly"},
     tts_api_key : {"", "tts-key"}]

\* hmac.new(key, msg, hashlib.sha256).hexdigest(): the digest is taken as
\* collision-free, so it is represented by its key and what it digests.
HMAC_SHA256(key, msg) == << "hmac-sha256", key, msg >>

\* json.dumps(payload): the JSON text of the payload, a value of its own kind
\* that determines the payload.
json_dumps(payload) == << "json", payload >>

\* _hmac_signature with no test of the secret: a digest under the empty key.
hmac_signature_unconditional(webhook_secret, payload) ==
    HMAC_SHA256(webhook_secret, payload)

\* _hmac_signature: "" (the empty tuple) without a secret, else the digest.
hmac_signature(webhook_secret, payload) ==
    IF webhook_secret = "" THEN << >>
    ELSE HMAC_SHA256(webhook_secret, payload)

\* _collect_artifacts: the paths of the run's artifact rows.
collect_artifacts(run_id) ==
    [i \in 1..Cardinality({j \in 1..Len(artifacts) : artifacts[j].run_id = run_id}) |->
        artifacts[CHOOSE j \in 1..Len(artifacts) :
            /\ artifacts[j].run_id = run_id
            /\ Cardinality({k \in 1..j : artifacts[k].run_id = run_id}) = i].path]

\* notify_completion, lines 82-83: nothing to do unless notifications are on
\* and a webhook URL is configured.
notify_completion(run_id) ==
    /\ notify_call.pc = "idle"
    /\ clock < MaxNotify
    /\ clock' = clock + 1
    /\ notify_call' =
         IF ~notifier.notify_on_complete \/ notifier.webhook_url = ""
         THEN [NotifyIdle EXCEPT !.run_id = run_id, !.ret = "ok"]
         ELSE [NotifyIdle EXCEPT !.run_id = run_id, !.pc = "collect_run"]
    /\ UNCHANGED << runs, approvals, artifacts, invoked, notified, thr,
                    notifier, posted, redaction,
                    fingerprint, vault, connector, presets >>

\* _collect_run, lines 44-53: raises ValueError when the run row is missing.
collect_run ==
    /\ notify_call.pc = "collect_run"
    /\ notify_call' =
         IF RunExists(notify_call.run_id)
         THEN [notify_call EXCEPT !.pc = "generate_tts"]
         ELSE [notify_call EXCEPT !.pc = "idle", !.ret = "ValueError"]
    /\ UNCHANGED << runs, approvals, artifacts, invoked, notified, clock, thr,
                    notifier, posted, redaction,
                    fingerprint, vault, connector, presets >>

\* _generate_tts, lines 55-79: None without a provider or a key or for a
\* provider it does not know; else the provider's answer, base64-encoded,
\* or what requests.post / raise_for_status raise.
generate_tts ==
    /\ notify_call.pc = "generate_tts"
    /\ IF \/ notifier.tts_provider = "none"
          \/ notifier.tts_api_key = ""
          \/ notifier.tts_provider \notin {"elevenlabs", "openai"}
       THEN notify_call' = [notify_call EXCEPT !.pc = "post", !.tts_audio = "None"]
       ELSE \/ notify_call' = [notify_call EXCEPT !.pc = "post", !.tts = "ok",
                                                  !.tts_audio = "base64(audio)"]
            \/ notify_call' = [notify_call EXCEPT !.pc = "idle", !.tts = "failed",
                                                  !.ret = "HTTPError"]
    /\ UNCHANGED << runs, approvals, artifacts, invoked, notified, clock, thr,
                    notifier, posted, redaction,
                    fingerprint, vault, connector, presets >>

\* notify_completion, lines 88-104: the payload, its serialisation, the
\* signature header when there is a signature, the POST and its status.
post_webhook ==
    /\ notify_call.pc = "post"
    /\ LET payload == [run_id |-> notify_call.run_id,
                       status |-> runs[notify_call.run_id].status,
                       artifacts |-> collect_artifacts(notify_call.run_id),
                       finished_at |-> clock,
                       tts_audio |-> notify_call.tts_audio]
           body == json_dumps(payload)
           signature == hmac_signature(notifier.webhook_secret, body)
           headers == IF signature # << >>
                      THEN {<< "Content-Type", << "application/json" >> >>,
                            << "X-Dara-Signature", signature >>}
                      ELSE {<< "Content-Type", << "application/json" >> >>}
       IN posted' = Append(posted, [url |-> notifier.webhook_url,
                                    data |-> body, headers |-> headers])
    /\ \E status_ok \in BOOLEAN :
          notify_call' = [notify_call EXCEPT
                             !.pc = "idle", !.sent = TRUE,
                             !.ret = IF status_ok THEN "ok" ELSE "HTTPError"]
    /\ UNCHANGED << runs, approvals, artifacts, invoked, notified, clock, thr,
                    notifier, redaction,
                    fingerprint, vault, connector, presets >>

\* --------------------------------------------------------------- redaction
\* A string is the sequence of its characters.
Bearer ==
    << "A", "u", "t", "h", "o", "r", "i", "z", "a", "t", "i", "o", "n", ":",
       " ", "B", "e", "a", "r", "e", "r", " " >>
ApiKeyEq == << "a", "p", "i", "_", "k", "e", "y", "=" >>
TokenEq == << "t", "o", "k", "e", "n", "=" >>
XApiKey == << "x", "-", "a", "p", "i", "-", "k", "e", "y", ":", " " >>
Stars == << "*", "*", "*" >>

\* SECRET_PATTERNS: the literal of group 1, and the characters group 2
\* ([^\s]+ or [^&\s]+) stops at.
SECRET_PATTERNS ==
    << [prefix |-> Bearer, stop |-> {" "}],
       [prefix |-> ApiKeyEq, stop |-> {"&", " "}],
       [prefix |-> TokenEq, stop |-> {"&", " "}],
       [prefix |-> XApiKey, stop |-> {" "}] >>

\* re.IGNORECASE, for the letters that occur in upper case here.
lower(c) == IF c = "A" THEN "a" ELSE IF c = "B" THEN "b" ELSE c

\* `lit` occurs in `text` at position i (ignoring case when fold is set).
MatchesAt(text, i, lit, fold) ==
    /\ i + Len(lit) - 1 <= Len(text)
    /\ \A k \in 1..Len(lit) :
          IF fold THEN lower(text[i + k - 1]) = lower(lit[k])
          ELSE text[i + k - 1] = lit[k]

\* `sub in text`
Contains(text, sub) ==
    \E i \in 1..(Len(text) + 1) : MatchesAt(text, i, sub, FALSE)

\* The last position of the greedy group 2 that starts at position j.
RECURSIVE RunEnd(_, _, _)
RunEnd(text, j, stop) ==
    IF j + 1 <= Len(text) /\ text[j + 1] \notin stop
    THEN RunEnd(text, j + 1, stop) ELSE j

\* pattern.sub(r"\1***", text), scanning from position i: each leftmost
\* match keeps its group 1 and has its group 2 replaced by ***.
RECURSIVE pattern_sub(_, _, _)
pattern_sub(pattern, text, i) ==
    IF i > Len(text) THEN << >>
    ELSE LET j == i + Len(pattern.prefix) IN
         IF /\ MatchesAt(text, i, pattern.prefix, TRUE)
            /\ j <= Len(text)
            /\ text[j] \notin pattern.stop
         THEN SubSeq(text, i, j - 1) \o Stars
                  \o pattern_sub(pattern, text, RunEnd(text, j, pattern.stop) + 1)
         ELSE << text[i] >> \o pattern_sub(pattern, text, i + 1)

\* text.replace(old, "***") for a non-empty old, scanning from position i.
RECURSIVE str_replace(_, _, _)
str_replace(text, old, i) ==
    IF i > Len(text) THEN << >>
    ELSE IF MatchesAt(text, i, old, FALSE)
         THEN Stars \o str_replace(text, old, i + Len(old))
         ELSE << text[i] >> \o str_replace(text, old, i + 1)

\* "for pattern in SECRET_PATTERNS", from the k-th pattern on.
RECURSIVE sub_patterns(_, _)
sub_patterns(text, k) ==
    IF k > Len(SECRET_PATTERNS) THEN text
    ELSE sub_patterns(pattern_sub(SECRET_PATTERNS[k], text, 1), k + 1)

\* "for secret in secret_values: if secret: ...", from the k-th value on.
RECURSIVE replace_secrets(_, _, _)
replace_secrets(text, secret_values, k) ==
    IF k > Len(secret_values) THEN text
    ELSE replace_secrets(IF secret_values[k] # << >>
                         THEN str_replace(text, secret_values[k], 1)
                         ELSE text,
                         secret_values, k + 1)

redact_text(text, secret_values) ==
    replace_secrets(sub_patterns(text, 1), secret_values, 1)

\* Inputs: a content is up to MaxChunks pieces, each a character or the
\* literal of a pattern; a secret value is up to MaxSecretChunks characters
\* (the empty value included); the vault lists up to MaxSecrets values.
Chunks == { << "a" >>, << "*" >>, << " " >>, << "&" >>,
            Bearer, ApiKeyEq, TokenEq, XApiKey }

SecretChunks == { << "a" >>, << "*" >> }

RECURSIVE Concat(_)
Concat(pieces) ==
    IF pieces = << >> THEN << >> ELSE pieces[1] \o Concat(Tail(pieces))

Strings(pieces, n) ==
    {Concat(ps) : ps \in UNION {[1..k -> pieces] : k \in 0..n}}

Contents == Strings(Chunks, MaxChunks)

SecretLists ==
    UNION {[1..k -> Strings(SecretChunks, MaxSecretChunks)] : k \in 0..MaxSecrets}

\* _write_artifact, lines 230-236: the vault's plaintexts are read and the
\* content goes to the file through redact_text.
redact_artifact ==
    /\ redaction.pc = "write"
    /\ redaction' = [redaction EXCEPT
          !.pc = "done",
          !.written = redact_text(redaction.content, redaction.secret_values)]
    /\ UNCHANGED << runs, approvals, artifacts, invoked, notified, clock, thr,
                    notifier, notify_call, posted,
                    fingerprint, vault, connector, presets >>

\* redact_text applied to the text of the file, with the same secret values.
redact_again ==
    /\ redaction.pc = "done"
    /\ redaction' = [redaction EXCEPT
          !.pc = "again",
          !.again = redact_text(redaction.written, redaction.secret_values)]
    /\ UNCHANGED << runs, approvals, artifacts, invoked, notified, clock, thr,
                    notifier, notify_call, posted,
                    fingerprint, vault, connector, presets >>

\* ------------------------------------------------------------- fingerprints
\* Key/value pairs step objects are made of.
StepPairs ==
    { << "type", "tool_step" >>, << "type", "approval_gate" >>,
      << "tool_name", "send_email" >>, << "write", "true" >>,
      << "write", "false" >>, << "action_type", "review" >> }

\* Step objects: dicts of up to MaxKeys keys, each in every order its pairs
\* can have been inserted in.
StepObjects ==
    {step \in UNION {[1..k -> StepPairs] : k \in 0..MaxKeys} :
        \A i, j \in 1..Len(step) : step[i][1] = step[j][1] => i = j}

\* dict equality: the same key/value pairs, whatever their order.
SamePairs(a, b) ==
    {a[i] : i \in 1..Len(a)} = {b[i] : i \in 1..Len(b)}

\* hash_payload of both step objects.
hash_steps ==
    /\ fingerprint.pc = "input"
    /\ fingerprint' = [fingerprint EXCEPT
          !.pc = "done",
          !.hash_a = hash_payload(fingerprint.a),
          !.hash_b = hash_payload(fingerprint.b)]
    /\ UNCHANGED << engine, notifier_vars, redaction, vault, connector, presets >>

\* ------------------------------------------------------------ secrets vault

MasterKeys == {"master-key", "other-key"}
Scopes == {"connector", "user"}
SecretNames == {"token", "password"}
Plaintexts == {"super-secret", "hunter2"}

\* Fernet.encrypt: a token that authenticates under the key it was made
\* with and carries the plaintext; iv stands for the random IV and the time.
encrypt(key, plaintext, iv) == << "fernet", key, plaintext, iv >>

\* What a direct write to the value column leaves: text that is no token.
CorruptValue == << "corrupt" >>

\* Fernet.decrypt: the plaintext, or InvalidToken for a value that is not a
\* token of this key.
decrypt(key, token) ==
    IF token[1] = "fernet" /\ token[2] = key
    THEN << "ok", token[3] >> ELSE << "InvalidToken" >>

\* SecretsVault(master_key): VaultError without a key; else a vault object
\* over the same secrets table.
SecretsVault(master_key) ==
    /\ vault' = [vault EXCEPT
          !.key = master_key, !.op = "SecretsVault", !.arg = << master_key >>,
          !.ret = IF master_key = "" THEN << "VaultError", "MASTER_KEY is required" >>
                  ELSE << "ok" >>]
    /\ UNCHANGED << engine, notifier_vars, redaction, fingerprint, connector, presets >>

\* store_secret with the value inserted as it is, not encrypted.
store_secret_plain(scope, name, value) ==
    /\ vault.key # ""
    /\ Len(vault.secrets) < MaxStored
    /\ LET secret_id == Len(vault.secrets) + 1 IN
       vault' = [vault EXCEPT
          !.secrets = Append(@, [id |-> secret_id, scope |-> scope, name |-> name,
                                 value |-> << value >>]),
          !.stored = Append(@, [id |-> secret_id, scope |-> scope, name |-> name,
                                plaintext |-> value, key |-> vault.key,
                                token |-> << value >>]),
          !.op = "store_secret", !.arg = << scope, name, value >>,
          !.ret = << "ok", [id |-> secret_id, scope |-> scope, name |-> name] >>]
    /\ UNCHANGED << engine, notifier_vars, redaction, fingerprint, connector, presets >>

\* store_secret: the encrypted value is inserted under a fresh id and the
\* VaultSecret is returned.  stored is the log of these calls: what was
\* asked, under which key, and the token written.
store_secret(scope, name, value) ==
    /\ vault.key # ""
    /\ Len(vault.secrets) < MaxStored
    /\ LET secret_id == Len(vault.secrets) + 1
           encrypted == encrypt(vault.key, value, secret_id)
       IN vault' = [vault EXCEPT
          !.secrets = Append(@, [id |-> secret_id, scope |-> scope, name |-> name,
                                 value |-> encrypted]),
          !.stored = Append(@, [id |-> secret_id, scope |-> scope, name |-> name,
                                plaintext |-> value, key |-> vault.key,
                                token |-> encrypted]),
          !.op = "store_secret", !.arg = << scope, name, value >>,
          !.ret = << "ok", [id |-> secret_id, scope |-> scope, name |-> name] >>]
    /\ UNCHANGED << engine, notifier_vars, redaction, fingerprint, connector, presets >>

\* The rows of a SELECT, in table order.
RECURSIVE SelectRows(_, _)
SelectRows(rows, scope) ==
    IF rows = << >> THEN << >>
    ELSE (IF scope = "" \/ Head(rows).scope = scope
          THEN << [id |-> Head(rows).id, scope |-> Head(rows).scope,
                   name |-> Head(rows).name] >>
          ELSE << >>) \o SelectRows(Tail(rows), scope)

\* list_secrets(scope): WHERE scope = ? when a scope is given ("" is no
\* scope), else every row.
list_secrets(scope) ==
    /\ vault.key # ""
    /\ vault' = [vault EXCEPT
          !.op = "list_secrets", !.arg = << scope >>,
          !.ret = << "ok", SelectRows(vault.secrets, scope) >>]
    /\ UNCHANGED << engine, notifier_vars, redaction, fingerprint, connector, presets >>

\* get_secret_value(secret_id): VaultError for no row and for a value that
\* does not decrypt.
get_secret_value(secret_id) ==
    /\ vault.key # ""
    /\ vault' = [vault EXCEPT
          !.op = "get_secret_value", !.arg = << secret_id >>,
          !.ret = IF secret_id \notin 1..Len(vault.secrets)
                  THEN << "VaultError", "Secret not found" >>
                  ELSE LET plain == decrypt(vault.key, vault.secrets[secret_id].value)
                       IN IF plain[1] = "ok" THEN plain
                          ELSE << "VaultError", "Failed to decrypt secret" >>]
    /\ UNCHANGED << engine, notifier_vars, redaction, fingerprint, connector, presets >>

\* The generator of list_secret_values with no try/except: it yields up to
\* the first value that does not decrypt and raises there.
RECURSIVE DecryptAll(_, _, _)
DecryptAll(key, rows, yielded) ==
    IF rows = << >> THEN << "ok", yielded >>
    ELSE LET plain == decrypt(key, Head(rows).value)
         IN IF plain[1] = "ok"
            THEN DecryptAll(key, Tail(rows), Append(yielded, plain[2]))
            ELSE << "InvalidToken", yielded >>

\* The generator of list_secret_values: a value that does not decrypt is
\* passed over.
RECURSIVE DecryptEach(_, _, _)
DecryptEach(key, rows, yielded) ==
    IF rows = << >> THEN << "ok", yielded >>
    ELSE LET plain == decrypt(key, Head(rows).value)
         IN DecryptEach(key, Tail(rows),
                        IF plain[1] = "ok" THEN Append(yielded, plain[2]) ELSE yielded)

\* list(list_secret_values()) with the unguarded generator.
list_secret_values_unguarded ==
    /\ vault.key # ""
    /\ vault' = [vault EXCEPT
          !.op = "list_secret_values", !.arg = << >>,
          !.ret = DecryptAll(vault.key, vault.secrets, << >>)]
    /\ UNCHANGED << engine, notifier_vars, redaction, fingerprint, connector, presets >>

\* list(list_secret_values()), as _write_artifact calls it.
list_secret_values ==
    /\ vault.key # ""
    /\ vault' = [vault EXCEPT
          !.op = "list_secret_values", !.arg = << >>,
          !.ret = DecryptEach(vault.key, vault.secrets, << >>)]
    /\ UNCHANGED << engine, notifier_vars, redaction, fingerprint, connector, presets >>

\* A write to the secrets table from outside the vault: the value of one row
\* is replaced by text that is no token.
corrupt_row(secret_id) ==
    /\ secret_id \in 1..Len(vault.secrets)
    /\ vault.secrets[secret_id].value # CorruptValue
    /\ vault' = [vault EXCEPT
          !.secrets[secret_id].value = CorruptValue,
          !.op = "none", !.arg = << >>, !.ret = << >>]
    /\ UNCHANGED << engine, notifier_vars, redaction, fingerprint, connector, presets >>

\* --------------------------------------------------------- connector client

\* MCP_RUBE_URL values: unset, or scheme://[user@]host[:port][/], with hosts
\* inside and outside the blocked names and prefixes.
UrlSchemes ==
    { << "h", "t", "t", "p" >>,
      << "h", "t", "t", "p", "s" >>,
      << "H", "T", "T", "P" >>,
      << "f", "t", "p" >>,
      << "f", "i", "l", "e" >> }

UrlHosts ==
    { << "l", "o", "c", "a", "l", "h", "o", "s", "t" >>,
      << "L", "O", "C", "A", "L", "H", "O", "S", "T" >>,
      << "1", "2", "7", ".", "0", ".", "0", ".", "1" >>,
      << "[", ":", ":", "1", "]" >>,
      << "1", "0", ".", "0", ".", "0", ".", "5" >>,
      << "1", "7", "2", ".", "1", "6", ".", "0", ".", "1" >>,
      << "1", "9", "2", ".", "1", "6", "8", ".", "1", ".", "1" >>,
      << "1", "6", "9", ".", "2", "5", "4", ".", "1", ".", "1" >>,
      << "1", "1", "0", ".", "0", ".", "0", ".", "5" >>,
      << "r", "u", "b", "e", ".", "e", "x", "a", "m", "p", "l", "e" >> }

UrlUsers == { << >>, << "u", "@" >> }

UrlPorts == { << >>, << ":", "8", "0" >> }

UrlTails == { << >>, << "/" >> }

EnvUrls ==
    { << >> } \cup
    { scheme \o << ":", "/", "/" >> \o user \o host \o port \o tail :
        scheme \in UrlSchemes, user \in UrlUsers, host \in UrlHosts,
        port \in UrlPorts, tail \in UrlTails }

\* str.lower, for the letters that occur in upper case in these URLs.
str_lower(text) ==
    [k \in 1..Len(text) |->
        CASE text[k] = "H" -> "h" [] text[k] = "T" -> "t" [] text[k] = "P" -> "p"
          [] text[k] = "L" -> "l" [] text[k] = "O" -> "o" [] text[k] = "C" -> "c"
          [] text[k] = "A" -> "a" [] text[k] = "S" -> "s" [] OTHER -> text[k]]

\* str.rstrip("/")
RECURSIVE rstrip(_)
rstrip(text) ==
    IF text # << >> /\ text[Len(text)] = "/"
    THEN rstrip(SubSeq(text, 1, Len(text) - 1)) ELSE text

\* str.find: the first position from `start` where one of `chars` occurs, or
\* 0 for none.
Find(text, chars, start) ==
    IF \E k \in start..Len(text) : text[k] \in chars
    THEN CHOOSE k \in start..Len(text) :
            /\ text[k] \in chars
            /\ \A m \in start..(k - 1) : text[m] \notin chars
    ELSE 0

\* str.rfind of one character.
RFind(text, c) ==
    IF \E k \in 1..Len(text) : text[k] = c
    THEN CHOOSE k \in 1..Len(text) :
            /\ text[k] = c
            /\ \A m \in (k + 1)..Len(text) : text[m] # c
    ELSE 0

From(text, start) == SubSeq(text, start, Len(text))

Upto(text, end) == SubSeq(text, 1, end)

SchemeChars ==
    { "a", "c", "e", "f", "h", "i", "l", "o", "p", "s", "t",
      "A", "C", "H", "L", "O", "P", "S", "T" }

\* urlparse(url).scheme and .netloc: the scheme is the text before the first
\* ":" when that text is made of scheme characters, in lower case; the
\* netloc follows "//" and ends before the first "/", "?" or "#".
urlparse(url) ==
    LET colon == Find(url, {":"}, 1)
        has_scheme == colon > 1 /\ \A k \in 1..(colon - 1) : url[k] \in SchemeChars
        rest == IF has_scheme THEN From(url, colon + 1) ELSE url
        has_netloc == MatchesAt(rest, 1, << "/", "/" >>, FALSE)
        after == From(rest, 3)
        stop == Find(after, {"/", "?", "#"}, 1)
    IN [scheme |-> IF has_scheme THEN str_lower(Upto(url, colon - 1)) ELSE << >>,
        netloc |-> IF ~has_netloc THEN << >>
                   ELSE IF stop = 0 THEN after ELSE Upto(after, stop - 1)]

\* ParseResult.hostname: the netloc after the last "@", then the text inside
\* "[...]" or the text before the first ":", in lower case; << >> is None.
hostname_of(netloc) ==
    LET hostinfo == From(netloc, RFind(netloc, "@") + 1)
        open == Find(hostinfo, {"["}, 1)
        bracketed == From(hostinfo, open + 1)
        close == Find(bracketed, {"]"}, 1)
        colon == Find(hostinfo, {":"}, 1)
    IN str_lower(IF open > 0
                 THEN (IF close = 0 THEN bracketed ELSE Upto(bracketed, close - 1))
                 ELSE (IF colon = 0 THEN hostinfo ELSE Upto(hostinfo, colon - 1)))

Localhosts ==
    { << "l", "o", "c", "a", "l", "h", "o", "s", "t" >>,
      << "1", "2", "7", ".", "0", ".", "0", ".", "1" >>,
      << ":", ":", "1" >> }

PrivatePrefixes ==
    { << "1", "0", "." >>,
      << "1", "7", "2", ".", "1", "6", "." >>,
      << "1", "9", "2", ".", "1", "6", "8", "." >> }

LinkLocalPrefix == << "1", "6", "9", ".", "2", "5", "4", "." >>

startswith(text, prefix) == MatchesAt(text, 1, prefix, FALSE)

\* _validate_base_url with the scheme test only.
validate_base_url_scheme_only(base_url) ==
    IF base_url = << >> THEN base_url
    ELSE IF urlparse(base_url).scheme \notin { << "h", "t", "t", "p" >>, << "h", "t", "t", "p", "s" >> }
         THEN << >> ELSE base_url

\* _validate_base_url: the base URL it leaves, << >> (the client disabled)
\* for every URL that raises inside the try.
validate_base_url(base_url) ==
    IF base_url = << >> THEN base_url
    ELSE LET parsed == urlparse(base_url)
             hostname == hostname_of(parsed.netloc)
         IN IF parsed.scheme \notin { << "h", "t", "t", "p" >>, << "h", "t", "t", "p", "s" >> } THEN << >>
            ELSE IF hostname = << >> THEN base_url
            ELSE IF hostname \in Localhosts THEN << >>
            ELSE IF \E prefix \in PrivatePrefixes : startswith(hostname, prefix) THEN << >>
            ELSE IF startswith(hostname, LinkLocalPrefix) THEN << >>
            ELSE base_url

\* ConnectorService.__init__: the base URL from the environment, without
\* trailing slashes, then validated.
ConnectorService ==
    /\ connector.pc = "init"
    /\ connector' = [connector EXCEPT
          !.pc = "ready", !.base_url = validate_base_url(rstrip(connector.env_url))]
    /\ UNCHANGED << engine, notifier_vars, redaction, fingerprint, vault, presets >>

\* list_connectors: [] from a disabled client; else a GET, which raises for
\* a non-2xx answer.
list_connectors ==
    /\ connector.pc = "ready"
    /\ IF connector.base_url = << >>
       THEN connector' = [connector EXCEPT !.op = "list_connectors", !.ret = << "ok", << >> >>]
       ELSE /\ Len(connector.requests) < MaxRequests
            /\ \E answer \in { << "HTTPError" >>, << "ok", << >> >>, << "ok", << "gmail" >> >> } :
                  connector' = [connector EXCEPT
                      !.op = "list_connectors", !.ret = answer,
                      !.requests = Append(@, [method |-> "GET",
                                              url |-> connector.base_url \o << "/", "c", "o", "n", "n", "e", "c", "t", "o", "r", "s" >>])]
    /\ UNCHANGED << engine, notifier_vars, redaction, fingerprint, vault, presets >>

\* invoke_tool: RuntimeError from a disabled client; else a POST, which
\* raises for a non-2xx answer.
invoke_tool ==
    /\ connector.pc = "ready"
    /\ IF connector.base_url = << >>
       THEN connector' = [connector EXCEPT
               !.op = "invoke_tool",
               !.ret = << "RuntimeError", "MCP_RUBE_URL not configured" >>]
       ELSE /\ Len(connector.requests) < MaxRequests
            /\ \E answer \in { << "HTTPError" >>, << "ok", "result" >> } :
                  connector' = [connector EXCEPT
                      !.op = "invoke_tool", !.ret = answer,
                      !.requests = Append(@, [method |-> "POST",
                                              url |-> connector.base_url \o << "/", "t", "o", "o", "l", "s", "/", "i", "n", "v", "o", "k", "e" >>])]
    /\ UNCHANGED << engine, notifier_vars, redaction, fingerprint, vault, presets >>

\* ------------------------------------------------------------ model presets

PresetNames == {"quality", "main", "fast", "long"}

\* The environment of a process: MODEL_PRESET_QUALITY and MODEL_PRESET_FAST
\* (unset, or naming another model) and DEFAULT_MODEL_PRESET (unset, a
\* catalog name, or a name the catalog does not have).
PresetEnvs ==
    [MODEL_PRESET_QUALITY : {"glm-quality", "glm-5"},
     MODEL_PRESET_FAST : {"glm-fast", "glm-5-air"},
     DEFAULT_MODEL_PRESET : {"quality", "fast", "turbo"}]

\* The names set_active is called with: the catalog's and two others.
PresetArgs == PresetNames \cup {"turbo", ""}

\* dict.get(key, default) on the catalog.
mapping_get(mapping, key, default) ==
    IF key \in DOMAIN mapping THEN mapping[key] ELSE default

\* ModelPresetManager.__init__ / _ensure_defaults: INSERT OR IGNORE of the
\* four presets and of the state row; rows that exist are left as they are.
ModelPresetManager(env) ==
    /\ presets' = [presets EXCEPT
          !.model_presets =
              [n \in PresetNames |->
                  IF n \in DOMAIN presets.model_presets THEN presets.model_presets[n]
                  ELSE IF n = "quality" THEN env.MODEL_PRESET_QUALITY
                  ELSE IF n = "main" THEN "glm-main"
                  ELSE IF n = "fast" THEN env.MODEL_PRESET_FAST
                  ELSE "glm-long"],
          !.active_preset = IF presets.active_preset = "" THEN env.DEFAULT_MODEL_PRESET
                            ELSE presets.active_preset,
          !.op = "ModelPresetManager", !.arg = env.DEFAULT_MODEL_PRESET, !.ret = << "ok" >>]
    /\ UNCHANGED << engine, notifier_vars, redaction, fingerprint, vault, connector >>

\* list_presets: the catalog and the active preset of the state row.
list_presets ==
    /\ presets.active_preset # ""
    /\ presets' = [presets EXCEPT
          !.op = "list_presets", !.arg = "",
          !.ret = << "ok", presets.model_presets, presets.active_preset >>]
    /\ UNCHANGED << engine, notifier_vars, redaction, fingerprint, vault, connector >>

\* set_active with the UPDATE ahead of the SELECT and outside its
\* transaction: an unknown name is written before ValueError is raised.
set_active_update_first(preset_name) ==
    /\ presets.active_preset # ""
    /\ presets' = [presets EXCEPT
          !.op = "set_active", !.arg = preset_name,
          !.ret = IF preset_name \in DOMAIN presets.model_presets
                  THEN << "ok", preset_name >> ELSE << "ValueError", "Unknown preset" >>,
          !.active_preset = preset_name,
          !.last_set = IF preset_name \in DOMAIN presets.model_presets
                       THEN preset_name ELSE @]
    /\ UNCHANGED << engine, notifier_vars, redaction, fingerprint, vault, connector >>

\* set_active that returns the new state without the UPDATE.
set_active_unsaved(preset_name) ==
    /\ presets.active_preset # ""
    /\ presets' = [presets EXCEPT
          !.op = "set_active", !.arg = preset_name,
          !.ret = IF preset_name \in DOMAIN presets.model_presets
                  THEN << "ok", preset_name >> ELSE << "ValueError", "Unknown preset" >>,
          !.last_set = IF preset_name \in DOMAIN presets.model_presets
                       THEN preset_name ELSE @]
    /\ UNCHANGED << engine, notifier_vars, redaction, fingerprint, vault, connector >>

\* set_active: ValueError for a name with no row in model_presets, else the
\* UPDATE of the state row.  last_set is the name of the last call that
\* succeeded.
set_active(preset_name) ==
    /\ presets.active_preset # ""
    /\ presets' = [presets EXCEPT
          !.op = "set_active", !.arg = preset_name,
          !.ret = IF preset_name \in DOMAIN presets.model_presets
                  THEN << "ok", preset_name >> ELSE << "ValueError", "Unknown preset" >>,
          !.active_preset = IF preset_name \in DOMAIN presets.model_presets
                            THEN preset_name ELSE @,
          !.last_set = IF preset_name \in DOMAIN presets.model_presets
                       THEN preset_name ELSE @]
    /\ UNCHANGED << engine, notifier_vars, redaction, fingerprint, vault, connector >>

\* get_active_model: the model of the active preset, with the model of
\* quality for an active name the catalog does not have.
get_active_model ==
    /\ presets.active_preset # ""
    /\ presets' = [presets EXCEPT
          !.op = "get_active_model", !.arg = "",
          !.ret = << "ok", mapping_get(presets.model_presets, presets.active_preset,
                                      mapping_get(presets.model_presets, "quality",
                                                  "glm-quality")) >>]
    /\ UNCHANGED << engine, notifier_vars, redaction, fingerprint, vault, connector >>

\* ---------------------------------------------------------- specifications
\* No handler is running.
Quiet == \A t \in Threads : At(t, "idle")

RunIdArgs == 0..Len(runs)           \* 0: an id of no run
ApprovalIdArgs == 0..Len(approvals) \* 0: an id of no approval

\* One handler at a time: calls arrive after the previous call returned.
Next ==
    \/ \E w \in WorkflowIdArgs : Quiet /\ create_run(1, w)
    \/ \E r \in RunIdArgs, a \in ApprovalIdArgs, d \in DecisionArgs :
          Quiet /\ approve_run(1, r, a, d, "tester")
    \/ approve_get_state(1)
    \/ approve_running(1)
    \/ approve_reject(1)
    \/ get_run(1)
    \/ execute_run(1)
    \/ agent_step(1)
    \/ http_step(1)
    \/ approval_gate(1)
    \/ tool_step(1)
    \/ create_approval(1)
    \/ suspend(1)
    \/ invoke(1)
    \/ tool_artifact(1)
    \/ advance(1)
    \/ complete(1)
    \/ notify(1)

Spec == Init /\ [][Next]_vars

\* approve(approved) of the approval row that gates the run's current step.
\* The client sends it for a row it sees pending on a waiting run; a second
\* client may send the same request while the first is still being handled.
ApprovePending(t, overlapping) ==
    \E r \in 1..Len(runs), a \in 1..Len(approvals) :
        /\ approvals[a].run_id = r
        /\ runs[r].current_step < Len(StepsOf(r))
        /\ approvals[a].payload_hash = hash_payload(StepAt(r, runs[r].current_step))
        /\ \/ /\ approvals[a].status = "pending"
              /\ runs[r].status = "waiting_approval"
              /\ \A u \in Threads : At(u, "idle") \/ thr[u].run_id # r
           \/ /\ overlapping
              /\ \E u \in Threads \ {t} :
                    /\ ~At(u, "idle")
                    /\ thr[u].op = "approve"
                    /\ thr[u].run_id = r
                    /\ thr[u].approval_id = a
        /\ approve(t, r, a, "approved", "tester")

\* The tool call returns (the connector answers 2xx).
invoke_ok(t) == invoke(t) /\ thr'[t].pc = "tool_artifact"

\* notify_completion returns (the notifier of the tests never raises).
notify_ok(t) == notify(t) /\ ~notified'[Len(notified')].raised

\* Handlers of different requests overlap: each runs on its own thread, and
\* nothing but the single transactions is atomic.  Every tool call succeeds.
NextConc ==
    \E t \in Threads :
        \/ \E w \in DOMAIN workflows : create_run(t, w)
        \/ ApprovePending(t, TRUE)
        \/ approve_get_state(t)
        \/ approve_running(t)
        \/ get_run(t)
        \/ execute_run(t)
        \/ agent_step(t)
        \/ http_step(t)
        \/ approval_gate(t)
        \/ tool_step(t)
        \/ create_approval(t)
        \/ suspend(t)
        \/ invoke_ok(t)
        \/ tool_artifact(t)
        \/ advance(t)
        \/ complete(t)
        \/ notify_ok(t)

SpecConc == Init /\ [][NextConc]_vars

\* The lifecycle of the tests: one call at a time, each approve call approves
\* the pending approval of the run's current step, every tool call succeeds.
NextLifecycle ==
    \/ \E w \in DOMAIN workflows : Quiet /\ create_run(1, w)
    \/ Quiet /\ ApprovePending(1, FALSE)
    \/ approve_get_state(1)
    \/ approve_running(1)
    \/ get_run(1)
    \/ execute_run(1)
    \/ agent_step(1)
    \/ http_step(1)
    \/ approval_gate(1)
    \/ tool_step(1)
    \/ create_approval(1)
    \/ suspend(1)
    \/ invoke_ok(1)
    \/ tool_artifact(1)
    \/ advance(1)
    \/ complete(1)
    \/ notify_ok(1)

SpecLifecycle == Init /\ [][NextLifecycle]_vars

\* A process crash and restart.  The first process (thread 2) serves the
\* lifecycle's calls one at a time and stops at any point, in the middle of
\* a call or between calls: it takes no further step, its transactions so
\* far are committed and its locals are lost.  The restarted process
\* (thread 1) then serves the next call, with any arguments.
NextCrash ==
    \/ /\ thr[1].op = "none"
       /\ \/ \E w \in DOMAIN workflows : create_run(2, w)
          \/ ApprovePending(2, FALSE)
          \/ approve_get_state(2)
          \/ approve_running(2)
          \/ get_run(2)
          \/ execute_run(2)
          \/ agent_step(2)
          \/ http_step(2)
          \/ approval_gate(2)
          \/ tool_step(2)
          \/ create_approval(2)
          \/ suspend(2)
          \/ invoke_ok(2)
          \/ tool_artifact(2)
          \/ advance(2)
          \/ complete(2)
          \/ notify_ok(2)
    \/ /\ thr[1].op = "none"
       /\ \/ \E w \in WorkflowIdArgs : create_run(1, w)
          \/ \E r \in RunIdArgs, a \in ApprovalIdArgs, d \in DecisionArgs :
                approve_run(1, r, a, d, "tester")
    \/ approve_get_state(1)
    \/ approve_running(1)
    \/ approve_reject(1)
    \/ get_run(1)
    \/ execute_run(1)
    \/ agent_step(1)
    \/ http_step(1)
    \/ approval_gate(1)
    \/ tool_step(1)
    \/ create_approval(1)
    \/ suspend(1)
    \/ invoke(1)
    \/ tool_artifact(1)
    \/ advance(1)
    \/ complete(1)
    \/ notify(1)

SpecCrash == Init /\ [][NextCrash]_vars

\* The notifier on its own: any environment, a store holding one completed
\* agent0-smoke run and its artifacts, and notify_completion called for that
\* run or for an id of no run.
InitNotifier ==
    /\ runs = << [workflow_id |-> "agent0-smoke", status |-> "completed",
                  current_step |-> 3] >>
    /\ approvals = << >>
    /\ artifacts = << [run_id |-> 1, step |-> 0, path |-> "node_version.txt"],
                      [run_id |-> 1, step |-> 1, path |-> "python_version.txt"],
                      [run_id |-> 1, step |-> 2, path |-> "smoke.txt"] >>
    /\ invoked = << >>
    /\ notified = << >>
    /\ clock = 0
    /\ thr = [t \in Threads |-> Idle]
    /\ notifier \in NotifierEnvs
    /\ notify_call = NotifyIdle
    /\ posted = << >>
    /\ redaction = RedactionIdle
    /\ fingerprint = FingerprintIdle
    /\ vault = VaultIdle
    /\ connector = ConnectorIdle
    /\ presets = PresetsIdle

NextNotifier ==
    \/ \E run_id \in 0..Len(runs) : notify_completion(run_id)
    \/ collect_run
    \/ generate_tts
    \/ post_webhook

SpecNotifier == InitNotifier /\ [][NextNotifier]_vars

\* An artifact write on its own: any content and any vault listing.
InitRedact ==
    /\ runs = << >>
    /\ approvals = << >>
    /\ artifacts = << >>
    /\ invoked = << >>
    /\ notified = << >>
    /\ clock = 0
    /\ thr = [t \in Threads |-> Idle]
    /\ fingerprint = FingerprintIdle
    /\ vault = VaultIdle
    /\ connector = ConnectorIdle
    /\ presets = PresetsIdle
    /\ notifier = DefaultNotifier
    /\ notify_call = NotifyIdle
    /\ posted = << >>
    /\ redaction \in {[pc |-> "write", content |-> c, secret_values |-> sv,
                       written |-> << >>, again |-> << >>] :
                          c \in Contents, sv \in SecretLists}

NextRedact ==
    \/ redact_artifact
    \/ redact_again

SpecRedact == InitRedact /\ [][NextRedact]_vars

\* hash_payload on its own: any two step objects that are equal as dicts.
InitFingerprint ==
    /\ runs = << >>
    /\ approvals = << >>
    /\ artifacts = << >>
    /\ invoked = << >>
    /\ notified = << >>
    /\ clock = 0
    /\ thr = [t \in Threads |-> Idle]
    /\ notifier = DefaultNotifier
    /\ notify_call = NotifyIdle
    /\ posted = << >>
    /\ redaction = RedactionIdle
    /\ vault = VaultIdle
    /\ connector = ConnectorIdle
    /\ presets = PresetsIdle
    /\ fingerprint \in {[pc |-> "input", a |-> ab[1], b |-> ab[2],
                         hash_a |-> << >>, hash_b |-> << >>] :
                            ab \in {o \in StepObjects \X StepObjects :
                                       SamePairs(o[1], o[2])}}

NextFingerprint == hash_steps

SpecFingerprint == InitFingerprint /\ [][NextFingerprint]_vars

\* The vault on its own: a process opens it with its MASTER_KEY (or fails to,
\* without one), stores, lists and reads secrets; rows are corrupted from
\* outside, and the vault is opened again, with the same key or another.
InitVault ==
    /\ runs = << >>
    /\ approvals = << >>
    /\ artifacts = << >>
    /\ invoked = << >>
    /\ notified = << >>
    /\ clock = 0
    /\ thr = [t \in Threads |-> Idle]
    /\ notifier = DefaultNotifier
    /\ notify_call = NotifyIdle
    /\ posted = << >>
    /\ redaction = RedactionIdle
    /\ fingerprint = FingerprintIdle
    /\ connector = ConnectorIdle
    /\ presets = PresetsIdle
    /\ vault = VaultIdle

NextVault ==
    \/ \E master_key \in MasterKeys \cup {""} : SecretsVault(master_key)
    \/ \E scope \in Scopes, name \in SecretNames, value \in Plaintexts :
          store_secret(scope, name, value)
    \/ \E scope \in Scopes \cup {""} : list_secrets(scope)
    \/ \E secret_id \in 1..(MaxStored + 1) : get_secret_value(secret_id)
    \/ list_secret_values
    \/ \E secret_id \in 1..MaxStored : corrupt_row(secret_id)

SpecVault == InitVault /\ [][NextVault]_vars

\* The connector client on its own: constructed from any MCP_RUBE_URL of
\* EnvUrls, then asked to list connectors and to invoke tools.
InitConnector ==
    /\ runs = << >>
    /\ approvals = << >>
    /\ artifacts = << >>
    /\ invoked = << >>
    /\ notified = << >>
    /\ clock = 0
    /\ thr = [t \in Threads |-> Idle]
    /\ notifier = DefaultNotifier
    /\ notify_call = NotifyIdle
    /\ posted = << >>
    /\ redaction = RedactionIdle
    /\ fingerprint = FingerprintIdle
    /\ vault = VaultIdle
    /\ presets = PresetsIdle
    /\ connector \in {[pc |-> "init", env_url |-> url, base_url |-> << >>,
                       requests |-> << >>, op |-> "none", ret |-> << >>] :
                          url \in EnvUrls}

NextConnector ==
    \/ ConnectorService
    \/ list_connectors
    \/ invoke_tool

SpecConnector == InitConnector /\ [][NextConnector]_vars

\* The preset manager on its own: over empty tables a manager is constructed
\* (and constructed again, as each process start does, in any environment),
\* and presets are listed, activated and resolved.
InitPresets ==
    /\ runs = << >>
    /\ approvals = << >>
    /\ artifacts = << >>
    /\ invoked = << >>
    /\ notified = << >>
    /\ clock = 0
    /\ thr = [t \in Threads |-> Idle]
    /\ notifier = DefaultNotifier
    /\ notify_call = NotifyIdle
    /\ posted = << >>
    /\ redaction = RedactionIdle
    /\ fingerprint = FingerprintIdle
    /\ vault = VaultIdle
    /\ connector = ConnectorIdle
    /\ presets = [model_presets |-> << >>, active_preset |-> "", last_set |-> "",
                  op |-> "none", arg |-> "", ret |-> << >>]

NextPresets ==
    \/ \E env \in PresetEnvs : ModelPresetManager(env)
    \/ list_presets
    \/ \E preset_name \in PresetArgs : set_active(preset_name)
    \/ get_active_model

SpecPresets == InitPresets /\ [][NextPresets]_vars

\* ----------------------------------------------------------------- claims
RunIds == 1..Len(runs)

Terminal == {"completed", "rejected", "failed"}

\* A step the interpreter gates: an approval_gate, or a tool_step with write.
IsGated(step) ==
    \/ Get(step, "type", "") = "approval_gate"
    \/ Get(step, "type", "") = "tool_step" /\ Get(step, "write", "false") = "true"

IsWriteTool(step) ==
    Get(step, "type", "") = "tool_step" /\ Get(step, "write", "false") = "true"

\* Approval rows of a run for a fingerprint, by status.
RowsWith(run_id, h, status) ==
    {i \in RowsFor(run_id, h) : approvals[i].status = status}

\* Entries of a log (invoked, artifacts) for one step of one run.
EntriesOf(log, run_id, index) ==
    {i \in 1..Len(log) : log[i].run_id = run_id /\ log[i].step = index}

\* C1: a write=true tool step's tool is executed only in a state where an
\* approval row of that run with the step's fingerprint is approved: a thread
\* about to invoke the tool of a write step finds such a row.
C1_WriteToolNeedsApprovedRow ==
    \A t \in Threads :
        (At(t, "invoke") /\ IsWriteTool(StepAt(thr[t].run_id, thr[t].index)))
        => RowsWith(thr[t].run_id,
                    hash_payload(StepAt(thr[t].run_id, thr[t].index)),
                    "approved") # {}

\* A write tool has been invoked (send_email of a secretary-default run).
C1_Witness ==
    \E i \in 1..Len(invoked) :
        /\ IsWriteTool(StepAt(invoked[i].run_id, invoked[i].step))
        /\ invoked[i].tool_name = "send_email"

\* C2: with no engine call in progress, every run in waiting_approval has a
\* pending approval row of its own whose payload_hash is the fingerprint of
\* the step at current_step.
C2_WaitingHasPending ==
    Quiet =>
        \A r \in RunIds :
            runs[r].status = "waiting_approval" =>
                /\ runs[r].current_step < Len(StepsOf(r))
                /\ RowsWith(r, hash_payload(StepAt(r, runs[r].current_step)),
                            "pending") # {}

\* C3: for every pair (run_id, payload_hash) at most one approval row is
\* pending.
C3_AtMostOnePending ==
    \A i, j \in 1..Len(approvals) :
        ( /\ approvals[i].run_id = approvals[j].run_id
          /\ approvals[i].payload_hash = approvals[j].payload_hash
          /\ approvals[i].status = "pending"
          /\ approvals[j].status = "pending" ) => i = j

\* C4: once a run (of a stored workflow) is completed, rejected or failed, no
\* step of a later call changes its status or current_step, and no step of
\* it is executed (no tool invoked, no artifact written for it).
C4_TerminalIsFinal ==
    [][\A r \in RunIds :
          (runs[r].workflow_id \in DOMAIN workflows /\ runs[r].status \in Terminal) =>
             /\ runs'[r].status = runs[r].status
             /\ runs'[r].current_step = runs[r].current_step
             /\ \A i \in 1..Len(invoked') : i > Len(invoked) => invoked'[i].run_id # r
             /\ \A i \in 1..Len(artifacts') :
                    i > Len(artifacts) => artifacts'[i].run_id # r]_vars

\* C5: each tool_step of a run's workflow has its tool invoked at most once
\* for that run.
C5_ToolAtMostOnce ==
    \A r \in RunIds :
        \A index \in 0..(Len(StepsOf(r)) - 1) :
            Cardinality(EntriesOf(invoked, r, index)) <= 1

\* C6: two approve(approved) calls for the same run and the same pending
\* approval that overlap are serialized: the tool of the gated step is
\* invoked once and one artifact row is recorded for the step.
C6_ConcurrentApproveOnce ==
    \A r \in RunIds :
        \A index \in 0..(Len(StepsOf(r)) - 1) :
            IsWriteTool(StepAt(r, index)) =>
                /\ Cardinality(EntriesOf(invoked, r, index)) <= 1
                /\ Cardinality(EntriesOf(artifacts, r, index)) <= 1

\* C7: the notifier is invoked at most once per run, and only when the run's
\* persisted status is completed.
C7_NotifyOncePerRun ==
    /\ \A i, j \in 1..Len(notified) :
          notified[i].run_id = notified[j].run_id => i = j
    /\ \A t \in Threads : At(t, "notify") => runs[thr[t].run_id].status = "completed"

\* C8: every run (of a stored workflow) has current_step <= the number of
\* steps of its workflow, and a completed run has current_step equal to it.
C8_CurrentStepInRange ==
    \A r \in RunIds :
        runs[r].workflow_id \in DOMAIN workflows =>
            /\ runs[r].current_step <= Len(StepsOf(r))
            /\ runs[r].status = "completed" =>
                   runs[r].current_step = Len(StepsOf(r))

\* A secretary-default run has completed, at the end of its four steps.
C8_Witness ==
    \E r \in RunIds :
        /\ runs[r].workflow_id = "secretary-default"
        /\ runs[r].status = "completed"
        /\ runs[r].current_step = 4

\* Indices of the gated steps of a step list, and the n-th of them (from 1).
GatedIdx(steps) == {i \in 0..(Len(steps) - 1) : IsGated(steps[i + 1])}

NthGated(steps, n) ==
    CHOOSE i \in GatedIdx(steps) :
        Cardinality({j \in GatedIdx(steps) : j < i}) = n - 1

DistinctGated(steps) ==
    \A i, j \in GatedIdx(steps) :
        hash_payload(steps[i + 1]) = hash_payload(steps[j + 1]) => i = j

RowsOfRun(r) == {i \in 1..Len(approvals) : approvals[i].run_id = r}

\* C9: in the lifecycle (create_run, then approve(approved) of the pending
\* approval, tools succeeding) of a workflow with k gated steps of distinct
\* fingerprints, after n < k approvals the run waits on its (n+1)-th gated
\* step with n+1 approval rows, the last one pending for that step; after k
\* approvals it is completed.  secretary-default has k = 3 and at least 3
\* artifacts when completed.
C9_Lifecycle ==
    Quiet =>
        \A r \in RunIds :
            LET steps == StepsOf(r)
                k == Cardinality(GatedIdx(steps))
                n == Cardinality({i \in RowsOfRun(r) : approvals[i].status = "approved"})
            IN DistinctGated(steps) =>
                /\ n <= k
                /\ n < k =>
                      /\ runs[r].status = "waiting_approval"
                      /\ runs[r].current_step = NthGated(steps, n + 1)
                      /\ Cardinality(RowsOfRun(r)) = n + 1
                      /\ \E i \in RowsOfRun(r) :
                            /\ approvals[i].status = "pending"
                            /\ approvals[i].payload_hash =
                                   hash_payload(steps[NthGated(steps, n + 1) + 1])
                /\ n = k =>
                      /\ runs[r].status = "completed"
                      /\ Cardinality(RowsOfRun(r)) = k
                /\ runs[r].workflow_id = "secretary-default" =>
                      /\ k = 3
                      /\ runs[r].status = "completed" =>
                            Cardinality({i \in 1..Len(artifacts) :
                                            artifacts[i].run_id = r}) >= 3

\* A secretary-default run completed after its three approvals.
C9_Witness ==
    /\ Quiet
    /\ \E r \in RunIds :
          /\ runs[r].workflow_id = "secretary-default"
          /\ runs[r].status = "completed"
          /\ Cardinality({i \in RowsOfRun(r) : approvals[i].status = "approved"}) = 3

\* C10: an approve call with decision rejected creates no approval row,
\* invokes no tool and writes no artifact in any of its steps, and when it
\* returns the run it names has status rejected.
C10_RejectOnlyRejects ==
    [][\A t \in Threads :
          (thr'[t] # thr[t] /\ thr'[t].op = "approve" /\ thr'[t].decision = "rejected") =>
             /\ Len(approvals') = Len(approvals)
             /\ invoked' = invoked
             /\ artifacts' = artifacts
             /\ (thr'[t].pc = "idle" /\ RunExists(thr'[t].run_id)) =>
                    runs'[thr'[t].run_id].status = "rejected"]_vars

\* create_run of secretary-default, then the pending approval of the waiting
\* run was rejected, and the call has returned.
C10_Witness ==
    /\ Quiet
    /\ clock = 2
    /\ Len(approvals) = 1
    /\ thr[1].op = "approve" /\ thr[1].decision = "rejected" /\ thr[1].ret = "ok"
    /\ thr[1].run_id = 1 /\ thr[1].approval_id = 1
    /\ approvals[1].run_id = 1 /\ approvals[1].status = "rejected"
    /\ runs[1].status = "rejected"
    /\ invoked = << >>

\* C11: an approve call with decision rejected, rejecting an approval of a
\* waiting run, does not move the run: the run's current_step after the
\* call's update of the run row equals the one before it.
C11_RejectKeepsStep ==
    [][\A t \in Threads :
          ( /\ At(t, "approve_reject")
            /\ thr'[t] # thr[t]
            /\ RunExists(thr[t].run_id)
            /\ thr[t].approval_id \in RowsOfRun(thr[t].run_id)
            /\ runs[thr[t].run_id].status = "waiting_approval" ) =>
               runs'[thr[t].run_id].current_step =
                   runs[thr[t].run_id].current_step]_vars

\* C12: the interpreter treats a gated step of a run as approved exactly
\* when at least one approval row of the run with the step's fingerprint is
\* approved, whatever the other rows are: in every state the answer of
\* _has_approved for the step is that, so a step whose approval was granted
\* is never suspended again.
C12_AnyApprovedRowCounts ==
    \A r \in RunIds :
        \A index \in GatedIdx(StepsOf(r)) :
            has_approved(r, hash_payload(StepAt(r, index))) =
                {RowsWith(r, hash_payload(StepAt(r, index)), "approved") # {}}

\* C13: when the tool call of a tool_step fails, the call ends with the run
\* in status failed and current_step at the index of the failing step.
C13_ToolFailureFailsRun ==
    [][\A t \in Threads :
          ( /\ At(t, "invoke")
            /\ thr'[t].pc = "idle"
            /\ thr'[t].ret = "RuntimeError" ) =>
               /\ runs'[thr[t].run_id].status = "failed"
               /\ runs'[thr[t].run_id].current_step = thr[t].index]_vars

\* C14: create_run with a workflow_id of no workflow row never enters a
\* step, and ends with the not-found error, which the route answers 404.
C14_UnknownWorkflowNotFound ==
    \A t \in Threads :
        ( /\ thr[t].op = "create_run"
          /\ RunExists(thr[t].run_id)
          /\ runs[thr[t].run_id].workflow_id \notin DOMAIN workflows ) =>
             /\ thr[t].pc \in {"execute_run", "idle"}
             /\ At(t, "idle") =>
                   /\ thr[t].ret = "ValueError"
                   /\ route_status(thr[t].ret) = 404

\* create_run("no-such-workflow") has returned with the error.
C14_Witness ==
    /\ Quiet
    /\ thr[1].op = "create_run"
    /\ thr[1].ret = "ValueError"
    /\ runs[thr[1].run_id].workflow_id = "no-such-workflow"

\* C15: no step of an approve call for an existing run (of a stored
\* workflow) whose approval_id matches no approval row changes the runs
\* table or enters the interpreter, and the call ends with the not-found
\* error.
C15_UnknownApprovalNotFound ==
    [][\A t \in Threads :
          ( /\ thr'[t] # thr[t]
            /\ thr'[t].op = "approve"
            /\ RunExists(thr'[t].run_id)
            /\ runs[thr'[t].run_id].workflow_id \in DOMAIN workflows
            /\ thr'[t].approval_id \notin 1..Len(approvals') ) =>
               /\ runs' = runs
               /\ thr'[t].pc # "execute_run"
               /\ thr'[t].pc = "idle" => thr'[t].ret = "ValueError"]_vars

\* C16: a request to the approve route whose decision is neither approved
\* nor rejected is answered 400 at once: the engine's approve is not called
\* and no row of any table changes.
C16_BadDecisionRejected ==
    [][\A t \in Threads :
          (thr'[t] # thr[t] /\ thr'[t].decision \notin Decisions \cup {""}) =>
             /\ thr'[t].pc = "idle"
             /\ route_status(thr'[t].ret) = 400
             /\ thr'[t].op # "approve"
             /\ UNCHANGED << runs, approvals, artifacts, invoked, notified >>]_vars

\* A request with decision "maybe" was answered 400 while a run waits on a
\* pending approval: the approval is still pending, the run still waiting.
C16_Witness ==
    /\ Quiet
    /\ thr[1].op = "approve_run"
    /\ thr[1].decision = "maybe"
    /\ thr[1].ret = "HTTPException(400)"
    /\ Len(runs) = 1 /\ Len(approvals) = 1
    /\ approvals[1].run_id = 1
    /\ approvals[1].status = "pending"
    /\ runs[1].status = "waiting_approval"

\* C17: when notify_completion raises after the interpreter ran past the
\* last step, the create_run or approve call still returns normally, and the
\* run is completed with current_step at the number of its steps.
C17_NotifierFailureSwallowed ==
    \A t \in Threads :
        ( /\ At(t, "idle")
          /\ thr[t].op \in {"create_run", "approve"}
          /\ \E i \in 1..Len(notified) :
                /\ notified[i].raised
                /\ notified[i].at = clock
                /\ notified[i].run_id = thr[t].run_id ) =>
             /\ thr[t].ret = "ok"
             /\ runs[thr[t].run_id].status = "completed"
             /\ runs[thr[t].run_id].current_step = Len(StepsOf(thr[t].run_id))

\* An approve(approved) call ran an operator-flow run to its end, the
\* notifier raised, and the call has returned.
C17_Witness ==
    /\ Quiet
    /\ thr[1].op = "approve" /\ thr[1].decision = "approved"
    /\ thr[1].ret = "ok"
    /\ notified # << >>
    /\ notified[Len(notified)] =
           [run_id |-> thr[1].run_id, at |-> clock, raised |-> TRUE]
    /\ runs[thr[1].run_id].workflow_id = "operator-flow"
    /\ runs[thr[1].run_id].status = "completed"

\* C18: when a TTS provider and its API key are configured and the synthesis
\* fails, the notify_completion call still POSTs the webhook, with the
\* payload's tts_audio empty.
C18_TtsFailureStillPosts ==
    (notify_call.pc = "idle" /\ notify_call.tts = "failed") =>
        /\ notify_call.sent
        /\ posted # << >>
        /\ posted[Len(posted)].data[2].run_id = notify_call.run_id
        /\ posted[Len(posted)].data[2].tts_audio = "None"

\* C19: whenever create_run, or approve with decision approved, has returned
\* normally, the run it names is completed or waiting_approval.
C19_ReturnedNotRunning ==
    \A t \in Threads :
        ( /\ At(t, "idle")
          /\ thr[t].ret = "ok"
          /\ \/ thr[t].op = "create_run"
             \/ thr[t].op = "approve" /\ thr[t].decision = "approved" ) =>
             runs[thr[t].run_id].status \in {"completed", "waiting_approval"}

\* An approve(approved) call of a secretary-default run returned with the
\* run suspended at send_email, its second gated step.
C19_Witness ==
    /\ Quiet
    /\ thr[1].op = "approve" /\ thr[1].decision = "approved"
    /\ thr[1].ret = "ok"
    /\ runs[thr[1].run_id].workflow_id = "secretary-default"
    /\ runs[thr[1].run_id].status = "waiting_approval"
    /\ runs[thr[1].run_id].current_step = 2

\* C20: the text written to an artifact file contains no secret value the
\* vault listed at the write: no non-empty element of secret_values is a
\* substring of redact_text(content, secret_values).
C20_NoSecretInArtifact ==
    redaction.pc = "done" =>
        \A k \in 1..Len(redaction.secret_values) :
            redaction.secret_values[k] # << >> =>
                ~Contains(redaction.written, redaction.secret_values[k])

\* C21: redact_text is idempotent: applied to its own result with the same
\* secret values it returns that result.
C21_RedactIdempotent ==
    redaction.pc = "again" => redaction.again = redaction.written

\* C22: the fingerprint of a step does not depend on the order of its keys:
\* two step objects with the same key/value pairs have the same
\* hash_payload.
C22_FingerprintIgnoresKeyOrder ==
    (fingerprint.pc = "done" /\ SamePairs(fingerprint.a, fingerprint.b)) =>
        fingerprint.hash_a = fingerprint.hash_b

\* C23: within a run, artifact records are created in step order: a record of
\* the run created after another one is for the same or a later step.
C23_ArtifactsInStepOrder ==
    \A i, j \in 1..Len(artifacts) :
        (i < j /\ artifacts[i].run_id = artifacts[j].run_id)
            => artifacts[i].step <= artifacts[j].step

\* The steps of a workflow that write an artifact (gates do not).
ArtifactSteps(steps) ==
    {i \in 0..(Len(steps) - 1) :
        Get(steps[i + 1], "type", "") \in {"agent_step", "tool_step", "http_step"}}

\* The artifact rows of run r.
ArtifactRows(r) == {i \in 1..Len(artifacts) : artifacts[i].run_id = r}

\* C24: every completed run has at least as many artifact rows as its
\* workflow has agent_step, tool_step and http_step entries.
C24_CompletedRunArtifacts ==
    \A r \in 1..Len(runs) :
        runs[r].status = "completed"
            => Cardinality(ArtifactRows(r)) >= Cardinality(ArtifactSteps(StepsOf(r)))

\* A run of secretary-default completed after its approvals: it has a row
\* for its agent_step and one for each of its two tool_steps, none for its
\* gate.
C24_Witness ==
    \E r \in 1..Len(runs) :
        /\ runs[r].status = "completed"
        /\ runs[r].workflow_id = "secretary-default"
        /\ Len(StepsOf(r)) = 4
        /\ Cardinality(ArtifactSteps(StepsOf(r))) = 3
        /\ Cardinality(ArtifactRows(r)) = 3

\* A workflow with no approval_gate step and no tool_step with write = true.
GateFree(steps) ==
    \A i \in 1..Len(steps) :
        /\ Get(steps[i], "type", "") # "approval_gate"
        /\ ~(Get(steps[i], "type", "") = "tool_step" /\ Get(steps[i], "write", "") = "true")

SignatureHeaders(request) ==
    {h \in request.headers : h[1] = "X-Dara-Signature"}

\* C26: every webhook POST carries X-Dara-Signature if and only if the
\* configured webhook secret is non-empty, and the header's value is the
\* HMAC-SHA256 under that secret of exactly the body that is sent.
C26_SignatureIffSecret ==
    \A i \in 1..Len(posted) :
        /\ (SignatureHeaders(posted[i]) # {}) <=> (notifier.webhook_secret # "")
        /\ \A h \in SignatureHeaders(posted[i]) :
              h[2] = HMAC_SHA256(notifier.webhook_secret, posted[i].data)

\* A POST was sent with a secret configured: it carries one signature
\* header, the digest of its body under the secret.
C26_Witness ==
    /\ posted # << >>
    /\ notifier.webhook_secret = "secret"
    /\ SignatureHeaders(posted[1]) =
          {<< "X-Dara-Signature", HMAC_SHA256("secret", posted[1].data) >>}

\* A stored secret whose row still holds the token written by store_secret.
Untouched(i) == vault.secrets[i].value = vault.stored[i].token

\* C27: vault round trip: get_secret_value of the id returned by
\* store_secret(scope, name, p) yields p, and list_secrets of that scope (or
\* of no scope) lists the id with its scope and name, whenever the vault is
\* open with the master key the secret was stored under.
C27_VaultRoundTrip ==
    \A i \in 1..Len(vault.stored) :
        LET e == vault.stored[i] IN
        (vault.key = e.key /\ Untouched(i)) =>
            /\ (vault.op = "store_secret" /\ i = Len(vault.stored)) =>
                  vault.ret = << "ok", [id |-> e.id, scope |-> e.scope, name |-> e.name] >>
            /\ (vault.op = "get_secret_value" /\ vault.arg = << e.id >>) =>
                  vault.ret = << "ok", e.plaintext >>
            /\ (vault.op = "list_secrets" /\ vault.arg[1] \in {"", e.scope}) =>
                  /\ vault.ret[1] = "ok"
                  /\ \E k \in 1..Len(vault.ret[2]) :
                        vault.ret[2][k] = [id |-> e.id, scope |-> e.scope, name |-> e.name]

\* A secret was stored, and later read back by its id under the same key,
\* after another secret was stored too.
C27_Witness ==
    /\ Len(vault.stored) = 2
    /\ vault.op = "get_secret_value"
    /\ vault.arg = << 1 >>
    /\ vault.key = vault.stored[1].key
    /\ Untouched(1)
    /\ vault.ret = << "ok", vault.stored[1].plaintext >>

\* The rows list_secret_values can decrypt: untouched and stored under the
\* key the vault is open with.
Intact == {i \in 1..Len(vault.secrets) : Untouched(i) /\ vault.stored[i].key = vault.key}

\* C28: list_secret_values raises no error whatever rows do not
\* authenticate: with n rows of which c are corrupt it yields exactly the
\* n - c plaintexts of the intact rows, in row order.
C28_CorruptRowsSkipped ==
    vault.op = "list_secret_values" =>
        /\ vault.ret[1] = "ok"
        /\ Len(vault.ret[2]) = Cardinality(Intact)
        /\ \A k \in 1..Len(vault.ret[2]) :
              \E i \in Intact :
                  /\ Cardinality({j \in Intact : j <= i}) = k
                  /\ vault.ret[2][k] = vault.stored[i].plaintext

\* Two secrets are stored and the first row is corrupt: the listing yields
\* the one plaintext of the second row.
C28_Witness ==
    /\ vault.op = "list_secret_values"
    /\ Len(vault.secrets) = 2
    /\ vault.secrets[1].value = CorruptValue
    /\ Intact = {2}
    /\ vault.ret = << "ok", << vault.stored[2].plaintext >> >>

\* The configured URL is one the client must refuse: its scheme is not http
\* or https, or its hostname is a localhost name or starts with a private
\* or link-local prefix.
Refused(url) ==
    LET scheme == urlparse(url).scheme
        hostname == hostname_of(urlparse(url).netloc)
    IN \/ scheme \notin { << "h", "t", "t", "p" >>, << "h", "t", "t", "p", "s" >> }
       \/ hostname \in Localhosts
       \/ \E prefix \in PrivatePrefixes \cup {LinkLocalPrefix} : startswith(hostname, prefix)

\* C29: with a base URL whose scheme is not http/https, or whose hostname is
\* localhost, 127.0.0.1 or ::1 or starts with 10., 172.16., 192.168. or
\* 169.254., the client is disabled: list_connectors returns the empty list,
\* invoke_tool raises, and no outbound HTTP request is ever made.
C29_RefusedUrlDisablesClient ==
    (connector.env_url # << >> /\ connector.pc = "ready" /\ Refused(connector.env_url)) =>
        /\ connector.base_url = << >>
        /\ connector.requests = << >>
        /\ connector.op = "list_connectors" => connector.ret = << "ok", << >> >>
        /\ connector.op = "invoke_tool" => connector.ret[1] = "RuntimeError"

\* invoke_tool was called on a client configured with a host of 192.168.:
\* it raised and nothing was sent.
C29_Witness ==
    /\ connector.pc = "ready"
    /\ urlparse(connector.env_url).scheme = << "h", "t", "t", "p", "s" >>
    /\ startswith(hostname_of(urlparse(connector.env_url).netloc), << "1", "9", "2", ".", "1", "6", "8", "." >>)
    /\ connector.op = "invoke_tool"
    /\ connector.ret[1] = "RuntimeError"
    /\ connector.requests = << >>

\* C30: after set_active(n) succeeds, and until the next set_active that
\* succeeds, the state row holds n, list_presets reports n as the active
\* preset and get_active_model returns the model stored for n.
C30_ActivePresetAfterSet ==
    presets.last_set # "" =>
        /\ presets.last_set \in DOMAIN presets.model_presets
        /\ presets.active_preset = presets.last_set
        /\ presets.op = "set_active" /\ presets.ret[1] = "ok" =>
              presets.ret[2] = presets.last_set
        /\ presets.op = "list_presets" => presets.ret[3] = presets.last_set
        /\ presets.op = "get_active_model" =>
              presets.ret = << "ok", presets.model_presets[presets.last_set] >>

\* set_active("fast") succeeded in a process whose MODEL_PRESET_FAST names
\* another model, and get_active_model has returned that model.
C30_Witness ==
    /\ presets.last_set = "fast"
    /\ presets.op = "get_active_model"
    /\ presets.model_presets["fast"] = "glm-5-air"
    /\ presets.ret = << "ok", "glm-5-air" >>

\* C31: set_active with a name that has no row in the catalog fails with
\* ValueError and leaves the active preset as it was before the call.
C31_UnknownPresetRejected ==
    [][(presets'.op = "set_active" /\ presets'.arg \notin DOMAIN presets.model_presets)
          => /\ presets'.ret = << "ValueError", "Unknown preset" >>
             /\ presets'.active_preset = presets.active_preset
             /\ presets'.model_presets = presets.model_presets]_vars

\* set_active("turbo") has failed after set_active("fast") succeeded: fast
\* is still the active preset.
C31_Witness ==
    /\ presets.op = "set_active"
    /\ presets.arg = "turbo"
    /\ presets.ret[1] = "ValueError"
    /\ presets.last_set = "fast"
    /\ presets.active_preset = "fast"

\* The positions of _execute_run's loop body: a step is being evaluated.
StepPcs ==
    {"agent_step", "http_step", "approval_gate", "tool_step", "create_approval",
     "suspend", "invoke", "tool_artifact", "advance"}

\* C32: approve with decision approved, called for a run in waiting_approval
\* at index i, re-enters the interpreter at step i: the first step it
\* evaluates is step i, and it evaluates no step of a smaller index.
C32_ResumeAtCurrentStep ==
    [][\A t \in Threads :
          (/\ thr'[t].op = "approve"
           /\ thr'[t].decision = "approved"
           /\ thr'[t].entry >= 0
           /\ thr'[t].pc \in StepPcs)
          => /\ thr'[t].index >= thr'[t].entry
             /\ thr[t].pc = "execute_run" => thr'[t].index = thr'[t].entry]_vars

\* approve(approved) for a run waiting at step 2 (send_email) is writing the
\* artifact of step 2.
C32_Witness ==
    /\ thr[1].op = "approve"
    /\ thr[1].decision = "approved"
    /\ thr[1].entry = 2
    /\ thr[1].pc = "tool_artifact"
    /\ thr[1].index = 2

\* The invocations of the tool of step k of run r.
Invocations(r, k) ==
    {j \in 1..Len(invoked) : invoked[j].run_id = r /\ invoked[j].step = k}

\* C33: when the process stops after a tool_step's tool was invoked and
\* before current_step was advanced past the step, the run row still holds
\* the step's index, and the next approve call with decision approved for
\* the run invokes the step's tool a second time.
C33_CrashReplaysTool ==
    LET r == thr[2].run_id
        k == thr[2].index
    IN (/\ thr[2].pc \in {"tool_artifact", "advance"}
        /\ Get(StepAt(r, k), "type", "") = "tool_step") =>
          /\ thr[1].op = "none" =>
                /\ runs[r].current_step = k
                /\ Cardinality(Invocations(r, k)) = 1
          /\ (/\ thr[1].op = "approve"
              /\ thr[1].decision = "approved"
              /\ thr[1].run_id = r
              /\ thr[1].pc = "idle") =>
                Cardinality(Invocations(r, k)) = 2

\* The first process stopped after invoking send_email (step 2 of a
\* secretary-default run) and before advancing; the next call, approve with
\* decision approved, has returned and send_email was invoked twice.
C33_Witness ==
    /\ thr[2].pc = "advance"
    /\ thr[2].index = 2
    /\ runs[thr[2].run_id].workflow_id = "secretary-default"
    /\ thr[1].op = "approve"
    /\ thr[1].decision = "approved"
    /\ thr[1].run_id = thr[2].run_id
    /\ thr[1].pc = "idle"
    /\ Cardinality(Invocations(thr[2].run_id, 2)) = 2

\* C34: evaluating an approval_gate step creates no artifact, neither when
\* the gate suspends the run nor when it is passed: no artifact row is the
\* row of a gate step, and no step taken at a gate changes the artifacts.
C34_GateWritesNoArtifact ==
    [][/\ \A i \in 1..Len(artifacts') :
             Get(StepAt(artifacts'[i].run_id, artifacts'[i].step), "type", "")
                 # "approval_gate"
       /\ \A t \in Threads :
             (/\ thr[t].pc \in {"approval_gate", "create_approval", "suspend", "advance"}
              /\ Get(StepAt(thr[t].run_id, thr[t].index), "type", "") = "approval_gate"
              /\ thr'[t] # thr[t])
             => artifacts' = artifacts]_vars

\* A secretary-default run has passed its gate (step 1) and completed: its
\* artifact rows are those of steps 0, 2 and 3.
C34_Witness ==
    \E r \in 1..Len(runs) :
        /\ runs[r].workflow_id = "secretary-default"
        /\ runs[r].status = "completed"
        /\ \E a \in 1..Len(approvals) :
              /\ approvals[a].run_id = r
              /\ approvals[a].action_type = "approve_email_send"
              /\ approvals[a].status = "approved"
        /\ {artifacts[i].step : i \in ArtifactRows(r)} = {0, 2, 3}

\* C35: a step of an approve call for run_id changes no approval row of
\* another run, and no other run's status or current_step.
C35_ApproveTouchesOwnRunOnly ==
    [][\A t \in Threads :
          (thr'[t].op = "approve" /\ thr'[t] # thr[t]) =>
              /\ \A a \in 1..Len(approvals) :
                    approvals[a].run_id # thr'[t].run_id => approvals'[a] = approvals[a]
              /\ \A r \in 1..Len(runs) :
                    r # thr'[t].run_id => runs'[r] = runs[r]]_vars

\* C36: an approval decision is final: no step changes the status,
\* decided_by or decided_at of a row that is approved or rejected.
C36_DecisionFinal ==
    [][\A a \in 1..Len(approvals) :
          approvals[a].status \in {"approved", "rejected"} =>
              /\ approvals'[a].status = approvals[a].status
              /\ approvals'[a].decided_by = approvals[a].decided_by
              /\ approvals'[a].decided_at = approvals[a].decided_at]_vars

\* C37: approve called with a run_id of no run fails with the not-found
\* error (ValueError) and changes no approval row.
C37_UnknownRunLeavesApprovals ==
    [][\A t \in Threads :
          (thr'[t].op = "approve" /\ thr'[t] # thr[t] /\ ~RunExists(thr'[t].run_id)) =>
              /\ approvals' = approvals
              /\ thr'[t].pc = "idle" => thr'[t].ret = "ValueError"]_vars

\* C38: with no call in progress, every run row refers to a workflow that
\* exists, also after create_run calls that failed because the workflow_id
\* is unknown.
C38_RunsReferToWorkflows ==
    Quiet => \A r \in 1..Len(runs) : runs[r].workflow_id \in DOMAIN workflows

\* The gated steps of a run that repeat the content of an earlier step.
RepeatedIdx(steps) ==
    {k \in GatedIdx(steps) :
        \E j \in GatedIdx(steps) :
            j < k /\ hash_payload(steps[j + 1]) = hash_payload(steps[k + 1])}

\* An approved row of (run_id, h) after which no row of (run_id, h) was
\* rejected.
Granted(run_id, h) ==
    \E i \in RowsFor(run_id, h) :
        /\ approvals[i].status = "approved"
        /\ \A j \in RowsFor(run_id, h) :
              approvals[j].status = "rejected" =>
                  approvals[j].decided_at < approvals[i].decided_at

\* C39: an approved row satisfies every step of the run that has the same
\* fingerprint: when the interpreter reaches a gated step that repeats the
\* content of an earlier gated step, and a row of that fingerprint is approved
\* with no later rejection, it passes the step on to the next one (a gate) or
\* to its tool call (a write tool), creates no approval row and does not
\* suspend the run.
C39_ApprovedRowSatisfiesRepeats ==
    [][\A t \in Threads :
          ( /\ thr[t].pc \in {"approval_gate", "tool_step"}
            /\ thr[t].index \in RepeatedIdx(StepsOf(thr[t].run_id))
            /\ Granted(thr[t].run_id,
                       hash_payload(StepAt(thr[t].run_id, thr[t].index)))
            /\ thr'[t] # thr[t] ) =>
               /\ thr'[t].pc = IF thr[t].pc = "approval_gate" THEN "advance" ELSE "invoke"
               /\ thr'[t].index = thr[t].index
               /\ approvals' = approvals
               /\ runs' = runs]_vars

\* The interpreter has passed the second of the two identical gates of an
\* operator-flow run on the one approval row the run has.
C39_Witness ==
    /\ At(1, "advance")
    /\ thr[1].index = 2
    /\ runs[thr[1].run_id].workflow_id = "operator-flow"
    /\ 2 \in RepeatedIdx(StepsOf(thr[1].run_id))
    /\ Cardinality(RowsOfRun(thr[1].run_id)) = 1
    /\ \A i \in RowsOfRun(thr[1].run_id) : approvals[i].status = "approved"

====
